---- MODULE Spec2Model ----
(***************************************************************************)
(* Model of shihan-mcp: the WatchdogAgent (supervision orchestrator) and   *)
(* the tools it sequences (LogSentinelTool, CreedAuditTool, PlanCriticTool *)
(* and PagerTool).  Texts are the program's own strings; a file's content  *)
(* is the sequence of its lines; the .scrolls directory is the sequence of *)
(* its files in ascending order of modification time.                      *)
(***************************************************************************)
EXTENDS Integers, Sequences, FiniteSets, TLC

VARIABLES
    scrolls,    \* the ./.scrolls directory: files, oldest modification first
    minute,     \* the wall clock, in minutes (datetime.now() at "%m-%d-%H%M")
    event,      \* the request served last: [kind, scroll_path]
    env,        \* what the collaborators answered during that request
    scrolls0,   \* the ./.scrolls directory when that request started
    report,     \* the WatchOutput returned by that request
    calls,      \* the PagerTool calls made by that request, in order
    runs        \* the supervise runs in flight at once, each where it stands

vars == <<scrolls, minute, event, env, scrolls0, report, calls, runs>>

(***************************************************************************)
(* Bounds of the model.                                                    *)
(***************************************************************************)
MaxMinute == 1
MaxScrolls == 2
MaxEntries == 2
MaxTail == 2
MaxFiles == 2

(***************************************************************************)
(* Program constants.                                                      *)
(***************************************************************************)
AcceptanceThreshold == 80
PriorityHigh == 1

\* the longest line shown in a violation record, and what is kept of a
\* longer one before "..."
LineLimit == 50
LineKeep == 47

NONE == "<None>"

RECURSIVE Flatten(_)
Flatten(ss) == IF ss = <<>> THEN <<>> ELSE Head(ss) \o Flatten(Tail(ss))

Range(s) == {s[i] : i \in 1..Len(s)}

Count(s, x) == Cardinality({i \in 1..Len(s) : s[i] = x})

\* a Python value that is neither None nor the empty string
Truthy(text) == text \notin {NONE, ""}

(***************************************************************************)
(* Text: a Python str is a TLA+ string; Len and SubSeq give its length and *)
(* its slices, positions count from 1.                                     *)
(***************************************************************************)
\* text[i]
At(text, i) == SubSeq(text, i, i)

\* the positions at which pat occurs in text
Occurrences(text, pat) ==
    {i \in 1..(Len(text) - Len(pat) + 1) : SubSeq(text, i, i + Len(pat) - 1) = pat}

\* text.count(pat), for a pat that cannot overlap itself
CountOf(text, pat) == Cardinality(Occurrences(text, pat))

Least(S) == CHOOSE i \in S : \A j \in S : i <= j

Greatest(S) == CHOOSE i \in S : \A j \in S : j <= i

\* the position of the first occurrence of pat in text at or after from,
\* 0 when there is none
Find(text, pat, from) ==
    LET hits == {i \in Occurrences(text, pat) : i >= from}
    IN  IF hits = {} THEN 0 ELSE Least(hits)

(***************************************************************************)
(* config.Paths                                                            *)
(***************************************************************************)
PathsLOG == "training.log"
PathsSCROLLS == "./.scrolls"

(***************************************************************************)
(* LogSentinelTool                                                         *)
(***************************************************************************)
\* the default of LogSentinelInput.tail_lines, and the value the
\* orchestrator passes
TailLines == 500

\* the longest last error shown in the summary, and what is kept of a
\* longer one before "..."
ErrorLimit == 500
ErrorKeep == 497

\* the monitored log file: it holds a text, or it is missing or unreadable
\* (tail exits with a failure), or the tail program itself is missing, or
\* the file holds bytes that are no text (the decoding of tail's output
\* raises)
LogFile(text) == [state |-> "present", text |-> text]
MissingLog == [state |-> "missing", text |-> ""]
UnreadableLog == [state |-> "unreadable", text |-> ""]
NoTailProgram == [state |-> "no tail program", text |-> ""]
UndecodableLog == [state |-> "undecodable", text |-> ""]

\* subprocess.run(..., text=True) raises UnicodeDecodeError, which
\* _tail_log does not catch
TailLogRaises(file) == file.state = "undecodable"

DecodeError == "'utf-8' codec can't decode byte 0xff in position 0: invalid start byte"

\* the number of lines of a text as tail counts them: every newline ends a
\* line, and so does the end of a text that does not end with a newline
LineCount(text) ==
    IF text = "" THEN 0
    ELSE IF At(text, Len(text)) = "\n" THEN CountOf(text, "\n")
    ELSE CountOf(text, "\n") + 1

\* the position of the newline that ends line m of text
LineEnd(text, m) ==
    CHOOSE i \in Occurrences(text, "\n") :
        Cardinality({j \in Occurrences(text, "\n") : j <= i}) = m

\* tail -n tail_lines: the last tail_lines lines of text
TailOutput(tail_lines, text) ==
    IF LineCount(text) <= tail_lines THEN text
    ELSE SubSeq(text, LineEnd(text, LineCount(text) - tail_lines) + 1, Len(text))

\* LogSentinelTool._tail_log: the output of tail; when tail fails, the error
\* text that is returned in its place
TailLog(tail_lines, file) ==
    CASE file.state = "present" -> TailOutput(tail_lines, file.text)
      [] file.state \in {"missing", "unreadable"}
            -> "Error: Could not tail log file " \o PathsLOG
      [] file.state = "no tail program"
            -> "Error: Log file " \o PathsLOG \o " not found"

\* the literal each error pattern starts with; every pattern goes on with
\* .*?(?=\n\n|\Z) under re.DOTALL
ErrorPatterns ==
    <<"Traceback (most recent call last):", "RuntimeError:", "AssertionError:", "Error:">>

\* where .*?(?=\n\n|\Z) stops when it starts at from: before the first
\* blank line, or at the end of the text
BlockEnd(text, from) ==
    LET blank == Find(text, "\n\n", from)
    IN  IF blank = 0 THEN Len(text) + 1 ELSE blank

\* re.finditer(pattern, log_content, re.DOTALL): the spans [start, end) of
\* the matches, in document order, none overlapping another
RECURSIVE MatchSpans(_, _, _)
MatchSpans(pattern, text, from) ==
    LET start == Find(text, pattern, from)
        end == BlockEnd(text, start + Len(pattern))
    IN  IF start = 0 THEN <<>>
        ELSE <<[start |-> start, end |-> end]>> \o MatchSpans(pattern, text, end)

\* match.group(0)
Group0(text, span) == SubSeq(text, span.start, span.end - 1)

\* [match.group(0) for match in matches]
FindIter(pattern, text) ==
    LET matches == MatchSpans(pattern, text, 1)
    IN  [k \in 1..Len(matches) |-> Group0(text, matches[k])]

\* LogSentinelTool._find_last_error: the matches of all patterns, pattern
\* after pattern; the last of that list, None when it is empty
FindLastError(log_content) ==
    LET errors == Flatten([p \in 1..Len(ErrorPatterns) |->
                              FindIter(ErrorPatterns[p], log_content)])
    IN  IF errors # <<>> THEN errors[Len(errors)] ELSE NONE

\* \d
IsDigit(c) == c \in {"0", "1", "2", "3", "4", "5", "6", "7", "8", "9"}

\* \d{4}-\d{2}-\d{2} \d{2}:\d{2}:\d{2}, with d for \d
TimestampShape == "dddd-dd-dd dd:dd:dd"

\* the timestamp pattern matches text at position i
TimestampAt(text, i) ==
    /\ i + Len(TimestampShape) - 1 <= Len(text)
    /\ \A k \in 1..Len(TimestampShape) :
           IF At(TimestampShape, k) = "d"
           THEN IsDigit(At(text, i + k - 1))
           ELSE At(text, i + k - 1) = At(TimestampShape, k)

\* re.findall(timestamp_pattern, log_content): the matches in document
\* order, none overlapping another
RECURSIVE FindAllTimestamps(_, _)
FindAllTimestamps(text, from) ==
    LET hits == {i \in from..Len(text) : TimestampAt(text, i)}
    IN  IF hits = {} THEN <<>>
        ELSE <<SubSeq(text, Least(hits), Least(hits) + Len(TimestampShape) - 1)>>
             \o FindAllTimestamps(text, Least(hits) + Len(TimestampShape))

\* int() of a string of digits
DigitValue(c) == CHOOSE d \in 0..9 : ToString(d) = c

RECURSIVE ToInt(_)
ToInt(digits) ==
    IF digits = "" THEN 0
    ELSE 10 * ToInt(SubSeq(digits, 1, Len(digits) - 1))
         + DigitValue(At(digits, Len(digits)))

IsLeap(year) == year % 4 = 0 /\ (year % 100 # 0 \/ year % 400 = 0)

DaysInMonth(year, month) ==
    IF month = 2 THEN (IF IsLeap(year) THEN 29 ELSE 28)
    ELSE IF month \in {4, 6, 9, 11} THEN 30 ELSE 31

RECURSIVE DaysBeforeMonth(_, _)
DaysBeforeMonth(year, month) ==
    IF month = 1 THEN 0
    ELSE DaysBeforeMonth(year, month - 1) + DaysInMonth(year, month - 1)

DaysBeforeYear(year) ==
    (year - 1) * 365 + (year - 1) \div 4 - (year - 1) \div 100 + (year - 1) \div 400

Strptime_AnyDay(timestamp) ==
    LET year == ToInt(SubSeq(timestamp, 1, 4))
        month == ToInt(SubSeq(timestamp, 6, 7))
        day == ToInt(SubSeq(timestamp, 9, 10))
        hour == ToInt(SubSeq(timestamp, 12, 13))
        minute_ == ToInt(SubSeq(timestamp, 15, 16))
        second == ToInt(SubSeq(timestamp, 18, 19))
    IN  IF /\ year >= 1
           /\ month \in 1..12
           /\ day \in 1..31
           /\ hour <= 23 /\ minute_ <= 59 /\ second <= 59
        THEN [ok |-> TRUE,
              ordinal |-> DaysBeforeYear(year) + DaysBeforeMonth(year, month) + day,
              second |-> hour * 3600 + minute_ * 60 + second]
        ELSE [ok |-> FALSE, ordinal |-> 0, second |-> 0]

\* datetime.strptime(timestamp, '%Y-%m-%d %H:%M:%S'): the date as the
\* ordinal of its day and the second of that day, or ValueError
Strptime(timestamp) ==
    LET year == ToInt(SubSeq(timestamp, 1, 4))
        month == ToInt(SubSeq(timestamp, 6, 7))
        day == ToInt(SubSeq(timestamp, 9, 10))
        hour == ToInt(SubSeq(timestamp, 12, 13))
        minute_ == ToInt(SubSeq(timestamp, 15, 16))
        second == ToInt(SubSeq(timestamp, 18, 19))
    IN  IF /\ year >= 1
           /\ month \in 1..12
           /\ day \in 1..DaysInMonth(year, month)
           /\ hour <= 23 /\ minute_ <= 59 /\ second <= 59
        THEN [ok |-> TRUE,
              ordinal |-> DaysBeforeYear(year) + DaysBeforeMonth(year, month) + day,
              second |-> hour * 3600 + minute_ * 60 + second]
        ELSE [ok |-> FALSE, ordinal |-> 0, second |-> 0]

\* last_time - first_time: a timedelta, normalised to 0 <= seconds < 86400
TimeDelta(first_time, last_time) ==
    LET total == (last_time.ordinal - first_time.ordinal) * 86400
                 + (last_time.second - first_time.second)
    IN  [days |-> total \div 86400, seconds |-> total % 86400]

\* the formatting of the elapsed time in LogSentinelTool._compute_runtime
FormatElapsed(delta) ==
    LET hours == delta.seconds \div 3600
        minutes == (delta.seconds % 3600) \div 60
        seconds == (delta.seconds % 3600) % 60
    IN  IF delta.days > 0
        THEN ToString(delta.days) \o "d " \o ToString(hours) \o "h "
             \o ToString(minutes) \o "m " \o ToString(seconds) \o "s"
        ELSE IF hours > 0
        THEN ToString(hours) \o "h " \o ToString(minutes) \o "m "
             \o ToString(seconds) \o "s"
        ELSE IF minutes > 0
        THEN ToString(minutes) \o "m " \o ToString(seconds) \o "s"
        ELSE ToString(seconds) \o "s"

\* LogSentinelTool._compute_runtime
ComputeRuntime_One(log_content) ==
    LET timestamps == FindAllTimestamps(log_content, 1)
        first_time == Strptime(timestamps[1])
        last_time == Strptime(timestamps[Len(timestamps)])
    IN  IF Len(timestamps) < 1 THEN "Unknown (insufficient timestamps)"
        ELSE IF ~first_time.ok \/ ~last_time.ok THEN "Unknown (invalid timestamps)"
        ELSE FormatElapsed(TimeDelta(first_time, last_time))

ComputeRuntime(log_content) ==
    LET timestamps == FindAllTimestamps(log_content, 1)
        first_time == Strptime(timestamps[1])
        last_time == Strptime(timestamps[Len(timestamps)])
    IN  IF Len(timestamps) < 2 THEN "Unknown (insufficient timestamps)"
        ELSE IF ~first_time.ok \/ ~last_time.ok THEN "Unknown (invalid timestamps)"
        ELSE FormatElapsed(TimeDelta(first_time, last_time))

\* the upper-case form of a lower-case letter of the words counted below
UpperOf(c) ==
    CASE c = "a" -> "A" [] c = "e" -> "E" [] c = "g" -> "G" [] c = "i" -> "I"
      [] c = "n" -> "N" [] c = "o" -> "O" [] c = "r" -> "R" [] c = "w" -> "W"

\* text.lower().count(word), for a lower-case word that cannot overlap
\* itself: the positions where text reads word in either case
CountLower(text, word) ==
    Cardinality({i \in 1..(Len(text) - Len(word) + 1) :
                    \A k \in 1..Len(word) :
                        At(text, i + k - 1) \in {At(word, k), UpperOf(At(word, k))}})

\* last_error[:497] + "..." when len(last_error) > 500
Truncate(last_error) ==
    IF Len(last_error) > ErrorLimit
    THEN SubSeq(last_error, 1, ErrorKeep) \o "..."
    ELSE last_error

\* LogSentinelTool._generate_summary
GenerateSummary(log_content, last_error, elapsed) ==
    LET line_count == CountOf(log_content, "\n") + 1
        warning_count == CountLower(log_content, "warning")
        error_count == CountLower(log_content, "error")
                       + CountOf(log_content, "Traceback")
                       + CountOf(log_content, "Exception")
    IN  "Log Summary (" \o ToString(line_count) \o " lines, runtime: "
            \o elapsed \o "):"
        \o "\n" \o "- Warnings: " \o ToString(warning_count)
        \o "\n" \o "- Errors: " \o ToString(error_count)
        \o "\n" \o (IF Truthy(last_error)
                    THEN "- Last error: " \o Truncate(last_error)
                    ELSE "- No errors detected")

\* the LogSentinelOutput built by LogSentinelTool._run from what it computed
LogSentinelOutput(log_content, last_error, elapsed) ==
    [summary |-> GenerateSummary(log_content, last_error, elapsed),
     last_error |-> last_error,
     elapsed |-> elapsed]

\* LogSentinelTool._run, from the tailed content on
Inspect(log_content) ==
    LogSentinelOutput(log_content, FindLastError(log_content),
                      ComputeRuntime(log_content))

\* LogSentinelTool._run
LogSentinelRun(input_obj, file) == Inspect(TailLog(input_obj.tail_lines, file))

\* the monitored logs of the supervision runs: a missing log, a log without
\* an error, a log that ends with an error, a log that is no text
CleanLog == LogFile("2025-05-01 10:00:00 epoch 1 loss 0.5\n")
OomLog == LogFile("2025-05-01 10:00:00 epoch 1\nRuntimeError: CUDA out of memory\n")
LogStates == {MissingLog, CleanLog, OomLog, UndecodableLog}

\* self.log_sentinel.run({"tail_lines": 500}) on each of these logs
LogResults ==
    [file \in {f \in LogStates : ~TailLogRaises(f)} |->
        LogSentinelRun([tail_lines |-> TailLines], file)]

(***************************************************************************)
(* The version-control collaborator and the source files it names.         *)
(***************************************************************************)
GitNotCalled == [rc |-> "not called", stdout |-> <<>>]

\* the answers of `git diff --name-only HEAD`: git cannot be started, git
\* fails (no repository), and four listings (stdout.strip().split("\n"))
GitAnswers ==
    {[rc |-> "exception", stdout |-> <<>>],
     [rc |-> "128", stdout |-> <<"">>],
     [rc |-> "0", stdout |-> <<"">>],
     [rc |-> "0", stdout |-> <<"notes.txt">>],
     [rc |-> "0", stdout |-> <<"notes.txt", "ok.py">>],
     [rc |-> "0", stdout |-> <<"bad.py", "gone.py", "notes.txt">>]}

\* text.endswith(suffix)
EndsWith(text, suffix) ==
    /\ Len(text) >= Len(suffix)
    /\ SubSeq(text, Len(text) - Len(suffix) + 1, Len(text)) = suffix

\* file.endswith(('.py', '.pyx', '.pyi'))
HasSourceExt(file) ==
    EndsWith(file, ".py") \/ EndsWith(file, ".pyx") \/ EndsWith(file, ".pyi")

GetChangedFiles_Unfiltered(git) ==
    IF git.rc = "0"
    THEN SelectSeq(git.stdout, LAMBDA file : file # "")
    ELSE <<>>

\* WatchdogAgent._get_changed_files
GetChangedFiles(git) ==
    IF git.rc = "0"
    THEN SelectSeq(git.stdout, LAMBDA file : file # "" /\ HasSourceExt(file))
    ELSE <<>>

\* the working tree: gone.py and gone.txt are named but do not exist,
\* locked.py exists and cannot be opened
FileExists(file) == file \in {"ok.py", "bad.py", "mixed.py", "notes.txt", "locked.py"}

FileReadable(file) == file # "locked.py"

\* str(e) of the exception of open()
ReadError(file) == "[Errno 13] Permission denied: '" \o file \o "'"

\* f.read() of the files of the working tree
FileContent(file) ==
    CASE file = "bad.py" ->
             "import torch\n# if x is None:\nx = load()\n\nif x is None:\n"
             \o "    print(hasattr(x, 'y'))"
      [] file = "ok.py" -> "import torch\n# if x is None:\nx = 1"
      [] file = "mixed.py" ->
             "x = hasattr(a, 'b')\nif y is None: pass\n    # mock = MagicMock()\n"
             \o "def f(**kwargs):  # is not None\nexcept ValueError:  pass\n"
             \o "t = torch.tensor([1.0]).cuda()\nif x: y = 1 else: return 0\n"
             \o "mock_loader = build_loader(path, batch_size=32, shuffle=True)  # mock\n"
      [] OTHER -> "todo: drop the hasattr call"

\* text.split(sep)
RECURSIVE Split(_, _)
Split(text, sep) ==
    LET at == Find(text, sep, 1)
    IN  IF at = 0 THEN <<text>>
        ELSE <<SubSeq(text, 1, at - 1)>>
             \o Split(SubSeq(text, at + Len(sep), Len(text)), sep)

\* content.split('\n')
FileLines(file) == Split(FileContent(file), "\n")

\* the keys of forbidden_patterns, in the order of the dictionary
RuleOrder == <<"is_none", "is_not_none", "kwargs", "mock", "if_none_fallback",
               "hasattr", "silent_exception", "unused_tensor", "fallback_pattern">>

\* the positions of a line, the one after its last character included
Positions(line) == 1..(Len(line) + 1)

\* line reads lit from position i on
Reads(line, i, lit) ==
    /\ i + Len(lit) - 1 <= Len(line)
    /\ SubSeq(line, i, i + Len(lit) - 1) = lit

\* \w
WordChars ==
    LET w == "abcdefghijklmnopqrstuvwxyzABCDEFGHIJKLMNOPQRSTUVWXYZ0123456789_"
    IN  {At(w, i) : i \in 1..Len(w)}

IsWordAt(line, i) == i \in 1..Len(line) /\ At(line, i) \in WordChars

\* \s
IsSpace(c) == c \in {" ", "\t", "\n", "\r", "\f"}

\* The elements of the forbidden patterns.  Each gives the positions at
\* which a match of the element can end when it starts at a position of S.
\* a literal
Lit(line, S, lit) == {i + Len(lit) : i \in {j \in S : Reads(line, j, lit)}}

\* \b
WordB(line, S) == {i \in S : IsWordAt(line, i - 1) # IsWordAt(line, i)}

\* \s*
Spaces0(line, S) ==
    {j \in Positions(line) :
        \E i \in S : i <= j /\ \A k \in i..(j - 1) : IsSpace(At(line, k))}

\* \s+
Spaces1(line, S) ==
    {j \in Positions(line) :
        \E i \in S : i < j /\ \A k \in i..(j - 1) : IsSpace(At(line, k))}

\* .*? (a line holds no newline)
AnyChars(line, S) == {j \in Positions(line) : \E i \in S : i <= j}

\* (?!\S)
NoSolidAhead(line, S) == {i \in S : i > Len(line) \/ IsSpace(At(line, i))}

\* where a match of the pattern of a rule can end in line
PatternEnds(rule, line) ==
    CASE rule = "is_none" ->
             WordB(line, Lit(line, Spaces1(line,
                 Lit(line, WordB(line, Positions(line)), "is")), "None"))
      [] rule = "is_not_none" ->
             WordB(line, Lit(line, Spaces1(line, Lit(line, Spaces1(line,
                 Lit(line, WordB(line, Positions(line)), "is")), "not")), "None"))
      [] rule = "kwargs" -> Lit(line, Positions(line), "**kwargs")
      [] rule = "mock" ->
             WordB(line, Lit(line, WordB(line, Positions(line)), "mock"))
                 \cup WordB(line, Lit(line, WordB(line, Positions(line)), "MagicMock"))
      [] rule = "if_none_fallback" ->
             Lit(line, Spaces1(line, Lit(line, AnyChars(line, Spaces1(line,
                 Lit(line, Positions(line), "if"))), "is")), "None")
      [] rule = "hasattr" ->
             WordB(line, Lit(line, WordB(line, Positions(line)), "hasattr"))
      [] rule = "silent_exception" ->
             Lit(line, Spaces0(line, Lit(line, AnyChars(line,
                 Lit(line, Positions(line), "except")), ":")), "pass")
      [] rule = "unused_tensor" ->
             NoSolidAhead(line, AnyChars(line, Lit(line, AnyChars(line,
                 Lit(line, Positions(line), "torch.tensor(")), ")")))
      [] rule = "fallback_pattern" ->
             Lit(line, Spaces1(line, Lit(line, AnyChars(line, Spaces0(line,
                 Lit(line, Spaces0(line, AnyChars(line, Spaces0(line,
                     Lit(line, AnyChars(line, Spaces1(line,
                         Lit(line, Positions(line), "if"))), ":")))), "else"))),
                 "return")), "0")

\* pattern.search(line)
PatternSearch(rule, line) == PatternEnds(rule, line) # {}

\* line.strip()
Strip(line) ==
    LET solid == {i \in 1..Len(line) : ~IsSpace(At(line, i))}
    IN  IF solid = {} THEN "" ELSE SubSeq(line, Least(solid), Greatest(solid))

\* line.strip().startswith('#')
IsComment(line) == Reads(Strip(line), 1, "#")

PatternDescription(rule) ==
    CASE rule = "is_none"          -> "Using 'is None' check (forbidden by Creed)"
      [] rule = "is_not_none"      -> "Using 'is not None' check (forbidden by Creed)"
      [] rule = "kwargs"           -> "Using '**kwargs' (forbidden by Creed)"
      [] rule = "mock"             -> "Using mock objects (forbidden by Creed)"
      [] rule = "if_none_fallback" -> "Using None fallback pattern (forbidden by Creed)"
      [] rule = "hasattr"          -> "Using hasattr() (forbidden by Creed)"
      [] rule = "silent_exception" -> "Silent exception handling (forbidden by Creed)"
      [] rule = "unused_tensor"    -> "Potentially unused tensor (forbidden by Creed)"
      [] rule = "fallback_pattern" -> "Using fallback pattern (forbidden by Creed)"

\* line[:47] + "..." when len(line) > 50
Trim(line) ==
    IF Len(line) > LineLimit THEN SubSeq(line, 1, LineKeep) \o "..." ELSE line

\* CreedAuditTool._format_violation
FormatViolation(file, line_num, line, rule) ==
    file \o ":" \o ToString(line_num) \o ": " \o PatternDescription(rule)
         \o "\n  " \o Strip(Trim(line))

\* the lines of a file that violate a rule: the pattern is found in the
\* line and the line is no comment
Hits(rule, lines) ==
    {i \in 1..Len(lines) : PatternSearch(rule, lines[i]) /\ ~IsComment(lines[i])}

CheckViolations_LinesFirst(file, lines) ==
    LET OfLine(i) ==
            LET rules == SelectSeq(RuleOrder, LAMBDA rule : i \in Hits(rule, lines))
            IN  [r \in 1..Len(rules) |-> FormatViolation(file, i, lines[i], rules[r])]
    IN  Flatten([i \in 1..Len(lines) |-> OfLine(i)])

\* CreedAuditTool._check_violations: rules, then lines
CheckViolations(file, lines) ==
    LET OfRule(rule) ==
            LET hit(i) == i \in Hits(rule, lines)
                F[i \in 0..Len(lines)] ==
                    IF i = 0 THEN <<>>
                    ELSE IF hit(i)
                         THEN Append(F[i-1], FormatViolation(file, i, lines[i], rule))
                         ELSE F[i-1]
            IN  F[Len(lines)]
    IN  Flatten([r \in 1..Len(RuleOrder) |-> OfRule(RuleOrder[r])])

\* the files a caller may name, and _check_violations on the content of
\* each of them
TreeFiles == {"ok.py", "bad.py", "mixed.py", "gone.py", "locked.py", "notes.txt", "gone.txt"}

FileViolations == [file \in TreeFiles |-> CheckViolations(file, FileLines(file))]

CreedAuditRun_AllTypes(files) ==
    LET OfFile(file) ==
            IF ~FileExists(file) THEN <<"File not found: " \o file>>
            ELSE IF ~FileReadable(file)
            THEN <<"Error reading " \o file \o ": " \o ReadError(file)>>
            ELSE FileViolations[file]
    IN  [violations |-> Flatten([i \in 1..Len(files) |-> OfFile(files[i])])]

CreedAuditRun_StopAtMissing(files) ==
    LET OfFile(file) ==
            IF ~FileExists(file) THEN <<"File not found: " \o file>>
            ELSE IF ~HasSourceExt(file) THEN <<>>
            ELSE IF ~FileReadable(file)
            THEN <<"Error reading " \o file \o ": " \o ReadError(file)>>
            ELSE FileViolations[file]
        audited == {i \in 1..Len(files) :
                       \A j \in 1..(i - 1) : FileExists(files[j])}
    IN  [violations |-> Flatten([i \in 1..Len(files) |->
                                    IF i \in audited THEN OfFile(files[i]) ELSE <<>>])]

\* CreedAuditTool._run
CreedAuditRun(files) ==
    LET OfFile(file) ==
            IF ~FileExists(file) THEN <<"File not found: " \o file>>
            ELSE IF ~HasSourceExt(file) THEN <<>>
            ELSE IF ~FileReadable(file)
            THEN <<"Error reading " \o file \o ": " \o ReadError(file)>>
            ELSE FileViolations[file]
    IN  [violations |-> Flatten([i \in 1..Len(files) |-> OfFile(files[i])])]

(***************************************************************************)
(* PlanCriticTool                                                          *)
(***************************************************************************)
IssuesMultiple ==
    <<"The plan attempts to fix multiple unrelated issues at once instead of focusing on one specific problem",
      "The diagnosis lacks specific details about how each issue was identified",
      "No evidence or logs are provided to support the diagnosis",
      "The relationship between the issues is not explained - are they connected or independent?",
      "Addressing multiple issues at once increases complexity and risk",
      "No explanation for why the learning rate should be 0.001 instead of 0.1",
      "The memory leak fix assumes 'del batch' is sufficient without investigating root cause",
      "Testing plan is extremely vague - just 'run the script and check'",
      "No specific metrics or criteria for determining if fixes worked",
      "No separate tests for each individual issue",
      "No consideration of edge cases",
      "No regression testing plan to ensure other functionality isn't broken",
      "The plan violates the single responsibility principle by tackling multiple issues at once",
      "Lacks detailed analysis of each problem before proposing solutions",
      "Testing approach is inadequate and lacks specificity",
      "No explanation of how to verify each fix independently",
      "No rollback strategy if any of the changes cause new problems">>

IssuesOom ==
    <<"Could provide more specific metrics to verify the fix works",
      "Consider adding a test for edge cases with very large inputs",
      "Consider explaining why gradient accumulation is better than other approaches">>

IssuesDefault ==
    <<"The plan could be more specific about the problem being addressed",
      "Testing methodology could be more comprehensive",
      "Consider adding more details about how to verify the fix works">>

\* the needles of _critique_with_llm found in line.lower(), for the lines
\* that occur in the model's documents
Mentions(line) ==
    CASE line \in {"This plan fixes several issues in the trainer"} -> {"several issues"}
      [] line \in {"Addressing multiple issues at once increases complexity and risk",
                   "The plan violates the single responsibility principle by tackling multiple issues at once"}
            -> {"multiple issues"}
      [] line \in {"Error: CUDA out of memory\n",
                   "Fix CUDA out of memory in the data loader"} -> {"cuda out of memory"}
      [] line \in {"Also covers the OOM crash"} -> {"oom"}
      [] OTHER -> {}

MentionsOf(content) == UNION {Mentions(content[i]) : i \in 1..Len(content)}

CritiqueWithLLM_OffScale(content) ==
    LET found == MentionsOf(content)
    IN  IF "multiple issues" \in found \/ "several issues" \in found
        THEN [score |-> 45, issues |-> IssuesMultiple]
        ELSE IF "cuda out of memory" \in found \/ "oom" \in found
        THEN [score |-> 185, issues |-> IssuesOom]
        ELSE [score |-> 70, issues |-> IssuesDefault]

CritiqueWithLLM_OomFirst(content) ==
    LET found == MentionsOf(content)
    IN  IF "cuda out of memory" \in found \/ "oom" \in found
        THEN [score |-> 85, issues |-> IssuesOom]
        ELSE IF "multiple issues" \in found \/ "several issues" \in found
        THEN [score |-> 45, issues |-> IssuesMultiple]
        ELSE [score |-> 70, issues |-> IssuesDefault]

\* PlanCriticTool._critique_with_llm (the mock critique)
CritiqueWithLLM(content) ==
    LET found == MentionsOf(content)
    IN  IF "multiple issues" \in found \/ "several issues" \in found
        THEN [score |-> 45, issues |-> IssuesMultiple]
        ELSE IF "cuda out of memory" \in found \/ "oom" \in found
        THEN [score |-> 85, issues |-> IssuesOom]
        ELSE [score |-> 70, issues |-> IssuesDefault]

(***************************************************************************)
(* The ./.scrolls directory.  A file is [name, content]; a path names a    *)
(* file of the directory with or without the leading "./".                 *)
(***************************************************************************)
ScrollPath(name) == PathsSCROLLS \o "/" \o name

PathRefers(path, name) == path \in {"./.scrolls/" \o name, ".scrolls/" \o name}

Lookup(dir, path) == {i \in 1..Len(dir) : PathRefers(path, dir[i].name)}

\* glob "*.md"
IsMd(name) == name # "README.txt"

\* open(path, "w") and write: the file becomes the most recently modified
WriteFile(dir, name, content) ==
    Append(SelectSeq(dir, LAMBDA f : f.name # name),
           [name |-> name, content |-> content])

\* the content of a file that is no UTF-8 text (a document saved as
\* UTF-16): f.read() raises UnicodeDecodeError
NoText == <<"\\xff\\xfe">>

PlanCriticRun_ReadAnyway(scroll_path, dir) ==
    LET hit == Lookup(dir, scroll_path)
    IN  IF hit = {}
        THEN [score |-> 0, issues |-> <<"Scroll not found: " \o scroll_path>>]
        ELSE CritiqueWithLLM(dir[CHOOSE i \in hit : TRUE].content)

\* PlanCriticTool._run
PlanCriticRun(scroll_path, dir) ==
    LET hit == Lookup(dir, scroll_path)
    IN  IF hit = {}
        THEN [score |-> 0, issues |-> <<"Scroll not found: " \o scroll_path>>]
        ELSE IF dir[CHOOSE i \in hit : TRUE].content = NoText
        THEN [score |-> 0, issues |-> <<"Error reading scroll: " \o DecodeError>>]
        ELSE CritiqueWithLLM(dir[CHOOSE i \in hit : TRUE].content)

(***************************************************************************)
(* PagerTool                                                               *)
(***************************************************************************)
Credentials == [user_key : BOOLEAN, api_token : BOOLEAN]

\* the answers of the push service (a status code, or the request raises)
\* and of the disk; the service refuses a request that lacks a credential
NetOutcomes == {"200", "500", "exception"}
DiskOutcomes == {"ok", "error"}
Oracle(c) ==
    [net : IF c.user_key /\ c.api_token THEN NetOutcomes ELSE {"400"},
     disk : DiskOutcomes]

Scores == {0, 45, 70, 85}
Priorities == 0..2

\* title.lower().replace(' ', '-').replace(':', '').replace('/', '-')
\* on the titles the program and its pager test use
SafeTitle(title) ==
    CASE title = "Error detected in training log" -> "error-detected-in-training-log"
      [] title = "Creed violations detected" -> "creed-violations-detected"
      [] \E sc \in Scores : title = "Plan critique: " \o ToString(sc) \o "/100"
            -> "plan-critique-"
               \o ToString(CHOOSE sc \in Scores :
                              title = "Plan critique: " \o ToString(sc) \o "/100")
               \o "-100"
      [] \E pr \in Priorities : title = "Test Alert (Priority " \o ToString(pr) \o ")"
            -> "test-alert-(priority-"
               \o ToString(CHOOSE pr \in Priorities :
                              title = "Test Alert (Priority " \o ToString(pr) \o ")")
               \o ")"

\* datetime.now().strftime("%m-%d-%H%M")
Timestamp(now) == "11-04-120" \o ToString(now)

CredentialsAvailable_Either(c) == ~(~c.user_key /\ ~c.api_token)

\* the check of the credentials in PagerTool._send_pushover
CredentialsAvailable(c) == ~(~c.user_key \/ ~c.api_token)

SendPushover_Retry(c, o) ==
    IF ~CredentialsAvailable(c)
    THEN [result |-> FALSE, steps |-> <<"_send_pushover">>, net |-> "not contacted"]
    ELSE [result |-> o.net = "200",
          steps |-> IF o.net = "200" THEN <<"_send_pushover", "requests.post">>
                    ELSE <<"_send_pushover", "requests.post", "requests.post">>,
          net |-> o.net]

SendPushover_Unchecked(c, o) ==
    IF ~CredentialsAvailable(c)
    THEN [result |-> TRUE, steps |-> <<"_send_pushover">>, net |-> "not contacted"]
    ELSE [result |-> o.net = "200",
          steps |-> <<"_send_pushover", "requests.post">>, net |-> o.net]

\* PagerTool._send_pushover
SendPushover(c, o) ==
    IF ~CredentialsAvailable(c)
    THEN [result |-> FALSE, steps |-> <<"_send_pushover">>, net |-> "not contacted"]
    ELSE [result |-> o.net = "200",
          steps |-> <<"_send_pushover", "requests.post">>, net |-> o.net]

CreateNinjascroll_Swallow(title, body, o, now, dir) ==
    LET name == Timestamp(now) \o "-page-" \o SafeTitle(title) \o ".md"
        content == <<"# " \o title, "">> \o body
                   \o <<"", "**Priority: HIGH**", "", "*This is a page alert from Shihan.*">>
    IN  IF o.disk = "ok"
        THEN [result |-> TRUE, dir |-> WriteFile(dir, name, content), file |-> name]
        ELSE [result |-> TRUE, dir |-> dir, file |-> NONE]

\* PagerTool._create_ninjascroll
CreateNinjascroll(title, body, o, now, dir) ==
    LET name == Timestamp(now) \o "-page-" \o SafeTitle(title) \o ".md"
        content == <<"# " \o title, "">> \o body
                   \o <<"", "**Priority: HIGH**", "", "*This is a page alert from Shihan.*">>
    IN  IF o.disk = "ok"
        THEN [result |-> TRUE, dir |-> WriteFile(dir, name, content), file |-> name]
        ELSE [result |-> FALSE, dir |-> dir, file |-> NONE]

PagerOutput_BothChannels(input, o, dir, pushover_result, ninjascroll_result) ==
    IF pushover_result.result
    THEN [status |-> "success", method |-> "pushover",
          dir |-> ninjascroll_result.dir,
          call |-> [title |-> input.title, priority |-> input.priority,
                    steps |-> pushover_result.steps, net |-> pushover_result.net,
                    disk |-> "not attempted", file |-> NONE,
                    status |-> "success", method |-> "pushover"]]
    ELSE IF ninjascroll_result.result
    THEN [status |-> "success", method |-> "ninjascroll",
          dir |-> ninjascroll_result.dir,
          call |-> [title |-> input.title, priority |-> input.priority,
                    steps |-> Append(pushover_result.steps, "_create_ninjascroll"),
                    net |-> pushover_result.net, disk |-> o.disk,
                    file |-> ninjascroll_result.file,
                    status |-> "success", method |-> "ninjascroll"]]
    ELSE [status |-> "failure", method |-> "none",
          dir |-> ninjascroll_result.dir,
          call |-> [title |-> input.title, priority |-> input.priority,
                    steps |-> Append(pushover_result.steps, "_create_ninjascroll"),
                    net |-> pushover_result.net, disk |-> o.disk,
                    file |-> NONE, status |-> "failure", method |-> "none"]]

\* the three returns of PagerTool._run; the call is recorded with what it did
PagerOutput(input, o, dir, pushover_result, ninjascroll_result) ==
    IF pushover_result.result
    THEN [status |-> "success", method |-> "pushover",
          dir |-> dir,
          call |-> [title |-> input.title, priority |-> input.priority,
                    steps |-> pushover_result.steps, net |-> pushover_result.net,
                    disk |-> "not attempted", file |-> NONE,
                    status |-> "success", method |-> "pushover"]]
    ELSE IF ninjascroll_result.result
    THEN [status |-> "success", method |-> "ninjascroll",
          dir |-> ninjascroll_result.dir,
          call |-> [title |-> input.title, priority |-> input.priority,
                    steps |-> Append(pushover_result.steps, "_create_ninjascroll"),
                    net |-> pushover_result.net, disk |-> o.disk,
                    file |-> ninjascroll_result.file,
                    status |-> "success", method |-> "ninjascroll"]]
    ELSE [status |-> "failure", method |-> "none",
          dir |-> ninjascroll_result.dir,
          call |-> [title |-> input.title, priority |-> input.priority,
                    steps |-> Append(pushover_result.steps, "_create_ninjascroll"),
                    net |-> pushover_result.net, disk |-> o.disk,
                    file |-> NONE, status |-> "failure", method |-> "none"]]

\* PagerTool._run: the fallback is evaluated only when the primary failed
PagerRun(input, c, o, now, dir) ==
    PagerOutput(input, o, dir, SendPushover(c, o),
                CreateNinjascroll(input.title, input.body, o, now, dir))

(***************************************************************************)
(* WatchdogAgent.  ctx holds what the collaborators answer during one run: *)
(* the log, the git answer, the credentials, the clock and, for the k-th   *)
(* pager call of the run, the outcomes of the network and of the disk.     *)
(***************************************************************************)
\* the lists and the flag a handler starts with; raised is the message of
\* the exception that ended the handler, None while there is none
Fresh(dir) == [actions_taken |-> <<>>, issues_found |-> <<>>, paged |-> FALSE,
               calls |-> <<>>, dir |-> dir, raised |-> NONE]

\* an exception leaves the handler
Raise(res, message) == [res EXCEPT !.raised = message]

Did(res, action) == [res EXCEPT !.actions_taken = Append(@, action)]

\* score below the threshold, WatchdogAgent._handle_scroll_committed
BelowThreshold_Ninety(score) == score < 90

BelowThreshold_Fifty(score) == score < 50

BelowThreshold(score) == score < AcceptanceThreshold

\* the arguments of self.pager.run in the handlers
PageInput_Normal(title, body) == [title |-> title, body |-> body, priority |-> 0]

PageInput(title, body) == [title |-> title, body |-> body, priority |-> PriorityHigh]

RecordPage_SilentFailure(res, page_result) ==
    IF page_result.status = "success"
    THEN [res EXCEPT !.actions_taken =
                         Append(@, "Paged successfully via " \o page_result.method),
                     !.paged = TRUE,
                     !.calls = Append(@, page_result.call),
                     !.dir = page_result.dir]
    ELSE [res EXCEPT !.calls = Append(@, page_result.call),
                     !.dir = page_result.dir]

\* the record of the outcome of a page, in the handlers
RecordPage(res, page_result) ==
    IF page_result.status = "success"
    THEN [res EXCEPT !.actions_taken =
                         Append(@, "Paged successfully via " \o page_result.method),
                     !.paged = TRUE,
                     !.calls = Append(@, page_result.call),
                     !.dir = page_result.dir]
    ELSE [res EXCEPT !.issues_found = Append(@, "Failed to page Hayato"),
                     !.calls = Append(@, page_result.call),
                     !.dir = page_result.dir]

\* the paging block of the handlers: the "Paging Hayato" entry, the pager
\* call (the k-th of the run is answered by ctx.oracle[k]) and the record
\* of its outcome
PageHayato(res, ctx, k, action, title, body) ==
    RecordPage(Did(res, action),
               PagerRun(PageInput(title, body), ctx.creds,
                        ctx.oracle[k + Len(res.calls) + 1], ctx.now, res.dir))

\* issues_found.extend(audit_result.get("violations"))
RecordViolations_First(issues_found, violations) ==
    Append(issues_found, violations[1])

RecordViolations(issues_found, violations) == issues_found \o violations

\* WatchdogAgent._handle_cycle_end, from the audit result on
AfterAudit(res, ctx, k, audit_result) ==
    IF audit_result.violations # <<>>
    THEN PageHayato(
             [res EXCEPT !.issues_found = RecordViolations(@, audit_result.violations)],
             ctx, k, "Paging Hayato about creed violations",
             "Creed violations detected",
             <<"Shihan has detected " \o ToString(Len(audit_result.violations))
                 \o " creed violations:", "">>
               \o audit_result.violations)
    ELSE Did(res, "No creed violations found")

\* WatchdogAgent._handle_cycle_end, from the list of changed files on
AfterChangedFiles(res, ctx, k, changed_files) ==
    IF changed_files # <<>>
    THEN AfterAudit(Did(res, "Auditing " \o ToString(Len(changed_files))
                               \o " changed files"),
                    ctx, k, CreedAuditRun(changed_files))
    ELSE Did(res, "No changed files found")

AfterLogCheck_AuditAnyway(res, ctx, k, log_result) ==
    IF Truthy(log_result.last_error)
    THEN AfterChangedFiles(
             PageHayato(
                 [res EXCEPT !.issues_found =
                     Append(@, "Error found in log: " \o log_result.last_error)],
                 ctx, k, "Paging Hayato about log error",
                 "Error detected in training log",
                 <<"Shihan has detected an error in the training log:", "",
                   log_result.last_error>>),
             ctx, k, GetChangedFiles(ctx.git))
    ELSE AfterChangedFiles(
             Did(res, "No errors found in log, checking for changed files"),
             ctx, k, GetChangedFiles(ctx.git))

\* WatchdogAgent._handle_cycle_end, from the log result on
AfterLogCheck(res, ctx, k, log_result) ==
    IF Truthy(log_result.last_error)
    THEN PageHayato(
             [res EXCEPT !.issues_found =
                 Append(@, "Error found in log: " \o log_result.last_error)],
             ctx, k, "Paging Hayato about log error",
             "Error detected in training log",
             <<"Shihan has detected an error in the training log:", "",
               log_result.last_error>>)
    ELSE AfterChangedFiles(
             Did(res, "No errors found in log, checking for changed files"),
             ctx, k, GetChangedFiles(ctx.git))

\* WatchdogAgent._handle_cycle_end; k pager calls were made before it
HandleCycleEnd(ctx, k, dir) ==
    IF TailLogRaises(ctx.log)
    THEN Raise(Did(Fresh(dir), "Checking log for errors"), DecodeError)
    ELSE AfterLogCheck(Did(Fresh(dir), "Checking log for errors"), ctx, k,
                       LogResults[ctx.log])

\* f"{critique_result.get('score')}/100"
ScoreText(critique_result) == ToString(critique_result.score) \o "/100"

\* WatchdogAgent._handle_scroll_committed, from the critique on
AfterCritique(res, ctx, k, critique_result) ==
    IF BelowThreshold(critique_result.score)
    THEN PageHayato(
             [res EXCEPT !.issues_found =
                 Append(@, "Plan score is below threshold: " \o ScoreText(critique_result))
                   \o critique_result.issues],
             ctx, k, "Paging Hayato about low plan score",
             "Plan critique: " \o ScoreText(critique_result),
             <<"Shihan has critiqued your plan and found issues:", "">>
               \o critique_result.issues)
    ELSE Did(res, "Plan score is acceptable: " \o ScoreText(critique_result))

\* WatchdogAgent._handle_scroll_committed; k pager calls were made before it
HandleScrollCommitted(scroll_path, ctx, k, dir) ==
    AfterCritique(Did(Fresh(dir), "Critiquing plan: " \o scroll_path), ctx, k,
                  PlanCriticRun(scroll_path, dir))

GetLatestScroll_Oldest(dir) ==
    LET mds == {i \in 1..Len(dir) : IsMd(dir[i].name)}
    IN  IF mds = {} THEN NONE
        ELSE ScrollPath(dir[CHOOSE i \in mds : \A j \in mds : i <= j].name)

\* WatchdogAgent._get_latest_scroll
GetLatestScroll(dir) ==
    LET mds == {i \in 1..Len(dir) : IsMd(dir[i].name)}
    IN  IF mds = {} THEN NONE
        ELSE ScrollPath(dir[CHOOSE i \in mds : \A j \in mds : j <= i].name)

EitherPaged_Last(paged, scroll_paged) == scroll_paged

\* paged = paged or scroll_result["paged"], WatchdogAgent._handle_manual_check
EitherPaged(paged, scroll_paged) == paged \/ scroll_paged

\* WatchdogAgent._handle_manual_check, the result of the scroll part added
\* to the result of the cycle_end part
WithScrollResult(log_result, latest_scroll, scroll_result) ==
    [actions_taken |-> log_result.actions_taken
                         \o <<"Found latest scroll: " \o latest_scroll>>
                         \o scroll_result.actions_taken,
     issues_found |-> log_result.issues_found \o scroll_result.issues_found,
     paged |-> EitherPaged(log_result.paged, scroll_result.paged),
     calls |-> log_result.calls \o scroll_result.calls,
     dir |-> scroll_result.dir,
     raised |-> scroll_result.raised]

\* WatchdogAgent._handle_manual_check, from the latest scroll on
AfterLatestScroll(log_result, ctx, latest_scroll) ==
    IF Truthy(latest_scroll)
    THEN WithScrollResult(log_result, latest_scroll,
                          HandleScrollCommitted(latest_scroll, ctx,
                                                Len(log_result.calls), log_result.dir))
    ELSE Did(log_result, "No recent scrolls found")

AfterCycleEnd_Abort(log_result, ctx) ==
    IF log_result.raised # NONE
       \/ "Failed to page Hayato" \in Range(log_result.issues_found)
    THEN log_result
    ELSE AfterLatestScroll(log_result, ctx, GetLatestScroll(log_result.dir))

\* WatchdogAgent._handle_manual_check, from the result of the cycle_end part on
AfterCycleEnd(log_result, ctx) ==
    IF log_result.raised # NONE THEN log_result
    ELSE AfterLatestScroll(log_result, ctx, GetLatestScroll(log_result.dir))

\* WatchdogAgent._handle_manual_check
HandleManualCheck(ctx, dir) == AfterCycleEnd(HandleCycleEnd(ctx, 0, dir), ctx)

\* the WatchOutput built by WatchdogAgent.run, with the pager calls made
\* and the scrolls directory left; an exception of the handler passes
\* through run
Output(result) ==
    [output |-> IF result.raised # NONE THEN NONE
                ELSE [status |-> "completed",
                      actions_taken |-> result.actions_taken,
                      issues_found |-> result.issues_found,
                      paged |-> result.paged],
     calls |-> result.calls,
     dir |-> result.dir,
     raised |-> result.raised]

Run_PathUnchecked(input_obj, ctx, dir) ==
    Output(IF input_obj.event = "cycle_end" THEN HandleCycleEnd(ctx, 0, dir)
           ELSE IF input_obj.event = "scroll_committed"
           THEN HandleScrollCommitted(input_obj.scroll_path, ctx, 0, dir)
           ELSE IF input_obj.event = "manual_check" THEN HandleManualCheck(ctx, dir)
           ELSE Fresh(dir))

\* WatchdogAgent.run
Run(input_obj, ctx, dir) ==
    Output(IF input_obj.event = "cycle_end" THEN HandleCycleEnd(ctx, 0, dir)
           ELSE IF input_obj.event = "scroll_committed" /\ Truthy(input_obj.scroll_path)
           THEN HandleScrollCommitted(input_obj.scroll_path, ctx, 0, dir)
           ELSE IF input_obj.event = "manual_check" THEN HandleManualCheck(ctx, dir)
           ELSE Fresh(dir))

EventKinds == {"cycle_end", "scroll_committed", "manual_check"}

\* WatchInput(**args): the event must be one of the three literals; the
\* message is the head of str(e) of the pydantic ValidationError
ValidationError(args) ==
    IF args.event \in EventKinds THEN NONE
    ELSE IF args.event = NONE
    THEN "1 validation error for WatchInput\nevent\n  Field required"
    ELSE "1 validation error for WatchInput\nevent\n  Input should be "
         \o "'cycle_end', 'manual_check' or 'scroll_committed'"

ErrorReport_Completed(message) ==
    [status |-> "completed", error |-> message, actions_taken |-> <<>>,
     issues_found |-> <<"Internal error: " \o message>>, paged |-> FALSE]

\* the dictionary returned by the except branch of supervise_cycle
ErrorReport(message) ==
    [status |-> "error", error |-> message, actions_taken |-> <<>>,
     issues_found |-> <<"Internal error: " \o message>>, paged |-> FALSE]

\* the try block of supervise_cycle has ended: with the report of the run,
\* or in the except branch
Caught(ran) ==
    IF ran.raised # NONE
    THEN [ran EXCEPT !.output = ErrorReport(ran.raised), !.raised = NONE]
    ELSE ran

\* supervise_cycle: the validation of the arguments and the run, both
\* inside the try block
SuperviseCycle(args, ctx, dir) ==
    IF ValidationError(args) # NONE
    THEN Caught([output |-> NONE, calls |-> <<>>, dir |-> dir,
                 raised |-> ValidationError(args)])
    ELSE Caught(Run(args, ctx, dir))

(***************************************************************************)
(* The state machine: requests are served one at a time; between two       *)
(* requests the author writes proposals.  Spec is the supervision service  *)
(* within one minute of the clock; SpecPager is the pager and the critic,  *)
(* called directly as page_ninja and critique_plan, as the minutes pass.   *)
(***************************************************************************)
LogNotRead == [state |-> "not read", text |-> ""]

\* the events a caller may send: the three kinds, another word, no event
EventInputs == EventKinds \cup {"deploy", NONE}

ProposalNames == {"05-01-0900-plan.md", "README.txt"}

ProposalTexts(name) ==
    IF name = "README.txt"
    THEN {<<"Proposals waiting for review">>}
    ELSE {<<"# Plan", "Fix CUDA out of memory in the data loader">>,
          <<"# Plan", "This plan fixes several issues in the trainer">>,
          <<"# Plan", "Lower the learning rate">>,
          <<"# Plan", "This plan fixes several issues in the trainer",
            "Also covers the OOM crash">>,
          NoText}

NoEvent == [event |-> "none", scroll_path |-> NONE]
NoAnswers == [log |-> LogNotRead, git |-> GitNotCalled,
              creds |-> [user_key |-> FALSE, api_token |-> FALSE]]
NoReport == [status |-> "none", actions_taken |-> <<>>, issues_found |-> <<>>,
             paged |-> FALSE]

Idle == event = NoEvent

\* the supervise runs that may be in flight at once
RunIds == {1, 2}

NoVerdict == [score |-> 0, issues |-> <<>>]

\* a run that has not begun: where it stands (pc), its arguments, what its
\* collaborators answer, the lists of its handler with the pager calls it
\* made (own), the document it critiques and the critique of it
IdleRun ==
    [pc |-> "idle", input |-> NoEvent, ctx |-> NoAnswers, own |-> Fresh(<<>>),
     latest |-> NONE, verdict |-> NoVerdict]

Init ==
    /\ runs = [r \in RunIds |-> IdleRun]
    /\ scrolls = <<>>
    /\ minute = 0
    /\ event = NoEvent
    /\ env = NoAnswers
    /\ scrolls0 = <<>>
    /\ report = NoReport
    /\ calls = <<>>

\* the paths a caller may name in a scroll_committed event
EventPaths(dir) ==
    {NONE, "", "./.scrolls/ghost.md"} \cup {ScrollPath(dir[i].name) : i \in 1..Len(dir)}

\* what the collaborators may answer during a run of this kind: git is
\* asked exactly when the log was read and held no error
Answers(kind) ==
    IF kind \notin EventKinds THEN {NoAnswers}
    ELSE IF kind = "scroll_committed"
    THEN {[log |-> LogNotRead, git |-> GitNotCalled, creds |-> c] : c \in Credentials}
    ELSE {[log |-> l, git |-> g, creds |-> c] :
             l \in LogStates, g \in GitAnswers \cup {GitNotCalled}, c \in Credentials}

Consistent(e) ==
    (e.git = GitNotCalled) <=>
        (\/ e.log = LogNotRead
         \/ TailLogRaises(e.log)
         \/ Truthy(LogResults[e.log].last_error))

\* the largest number of pager calls a run of this kind can make
MaxCalls(kind) == IF kind = "manual_check" THEN 2 ELSE 1

\* the run has ended: its report, its pager calls and the directory it left
Respond(input_obj, e, out) ==
    /\ Len(out.dir) <= MaxScrolls
    /\ event' = input_obj
    /\ env' = e
    /\ scrolls0' = scrolls
    /\ scrolls' = out.dir
    /\ report' = out.output
    /\ calls' = out.calls
    /\ UNCHANGED <<minute, runs>>

\* supervise_cycle: one WatchdogAgent run, from the event to the report
Supervise(kind, path) ==
    /\ Idle
    /\ kind # "scroll_committed" => path = NONE
    /\ \E e \in {a \in Answers(kind) : Consistent(a)} :
       \E oracle \in [1..MaxCalls(kind) -> Oracle(e.creds)] :
           Respond([event |-> kind, scroll_path |-> path], e,
                   SuperviseCycle([event |-> kind, scroll_path |-> path],
                                  [log |-> e.log, git |-> e.git, creds |-> e.creds,
                                   oracle |-> oracle, now |-> minute],
                                  scrolls))

\* the arguments of the pager test
TestAlert(priority) ==
    [title |-> "Test Alert (Priority " \o ToString(priority) \o ")",
     body |-> <<"This is a test alert with priority " \o ToString(priority) \o ".",
                "", "It's sent from the PagerTool test script.">>,
     priority |-> priority]

\* page_ninja: the pager tool called directly, as the pager test does
PageNinja(priority) ==
    /\ Idle
    /\ \E c \in Credentials : \E o \in Oracle(c) :
           \E out \in {PagerRun(TestAlert(priority), c, o, minute, scrolls)} :
               Respond([event |-> "page_ninja", scroll_path |-> NONE],
                       [log |-> LogNotRead, git |-> GitNotCalled, creds |-> c],
                       [output |-> NoReport, calls |-> <<out.call>>, dir |-> out.dir])

\* the report has been handed to the caller; the agent keeps no state
Return ==
    /\ ~Idle
    /\ event' = NoEvent
    /\ env' = NoAnswers
    /\ scrolls0' = <<>>
    /\ report' = NoReport
    /\ calls' = <<>>
    /\ UNCHANGED <<scrolls, minute, runs>>

\* the author writes (or rewrites) a file of the scrolls directory
AuthorWrites(name, text) ==
    /\ Idle
    /\ Len(WriteFile(scrolls, name, text)) <= MaxScrolls
    /\ scrolls' = WriteFile(scrolls, name, text)
    /\ UNCHANGED <<minute, event, env, scrolls0, report, calls, runs>>

\* a minute passes
Tick ==
    /\ Idle
    /\ minute < MaxMinute
    /\ minute' = minute + 1
    /\ UNCHANGED <<scrolls, event, env, scrolls0, report, calls, runs>>

Next ==
    \/ \E kind \in EventInputs, path \in EventPaths(scrolls) : Supervise(kind, path)
    \/ Return
    \/ \E name \in ProposalNames : \E text \in ProposalTexts(name) : AuthorWrites(name, text)

Spec == Init /\ [][Next]_vars

\* the paths a caller may hand to the critic
CritiquePaths(dir) ==
    {"", "./.scrolls/ghost.md"} \cup {ScrollPath(dir[i].name) : i \in 1..Len(dir)}

\* critique_plan: one PlanCriticTool run on the document named
CallCritiquePlan(path) ==
    /\ Idle
    /\ Respond([event |-> "critique_plan", scroll_path |-> path],
               NoAnswers,
               [output |-> PlanCriticRun(path, scrolls), calls |-> <<>>,
                dir |-> scrolls])

\* the pager and the critic on their own
NextPager ==
    \/ \E priority \in Priorities : PageNinja(priority)
    \/ \E path \in CritiquePaths(scrolls) : CallCritiquePlan(path)
    \/ Return
    \/ \E name \in ProposalNames : \E text \in ProposalTexts(name) : AuthorWrites(name, text)
    \/ Tick

SpecPager == Init /\ [][NextPager]_vars

(***************************************************************************)
(* SpecTools: the log sentinel and the creed auditor, called directly as   *)
(* the tools tail_log and audit_creed.                                     *)
(***************************************************************************)
\* 600 characters without an error signature, a blank line or a timestamp
Filler ==
    LET x10 == "xxxxxxxxxx"
        x100 == x10 \o x10 \o x10 \o x10 \o x10 \o x10 \o x10 \o x10 \o x10 \o x10
    IN  x100 \o x100 \o x100 \o x100 \o x100 \o x100

\* what the training process writes to the log, one entry at a time
LongError == "AssertionError: " \o Filler \o "\n"

LogEntries ==
    {"2025-05-01 10:00:00 epoch 1 loss 0.5\n",
     "2025-05-01 10:00:45 WARNING slow step\n",
     "2025-05-02 11:00:00 epoch 9\n",
     "2025-02-30 10:00:00 resumed\n",
     "2025-05-01 10:00:30 restored the checkpoint of 2025-02-30 10:00:00\n",
     "RuntimeError: CUDA out of memory\n",
     "Error: disk full\n\n",
     "Traceback (most recent call last):\n  File \"train.py\", line 7\nKeyboardInterrupt\n",
     LongError,
     "partial",
     "\n"}

\* the texts of at most n entries
RECURSIVE LogTexts(_)
LogTexts(n) ==
    IF n = 0 THEN {""}
    ELSE LogTexts(n - 1) \cup {text \o entry : text \in LogTexts(n - 1), entry \in LogEntries}

LogFiles ==
    {MissingLog, UnreadableLog, NoTailProgram}
        \cup {LogFile(text) : text \in LogTexts(MaxEntries)}

TailLengths == 1..MaxTail \cup {TailLines}

\* tail_log: one LogSentinelTool run on the log as it is
CallTailLog(tail_lines, file) ==
    /\ Idle
    /\ Respond([event |-> "tail_log", scroll_path |-> NONE, tail_lines |-> tail_lines],
               [log |-> file, git |-> GitNotCalled, creds |-> NoAnswers.creds],
               [output |-> LogSentinelRun([tail_lines |-> tail_lines], file),
                calls |-> <<>>, dir |-> scrolls])

\* the paths a caller may hand to the auditor
AuditPaths == TreeFiles

RECURSIVE FileLists(_)
FileLists(n) ==
    IF n = 0 THEN {<<>>}
    ELSE FileLists(n - 1)
             \cup {Append(files, file) : files \in FileLists(n - 1), file \in AuditPaths}

\* audit_creed: one CreedAuditTool run on the files named
CallAuditCreed(files) ==
    /\ Idle
    /\ Respond([event |-> "audit_creed", scroll_path |-> NONE, files |-> files,
                run |-> 1, previous |-> <<>>],
               NoAnswers,
               [output |-> CreedAuditRun(files), calls |-> <<>>, dir |-> scrolls])

AuditAgain_Accumulate(previous, files) ==
    [violations |-> previous \o CreedAuditRun(files).violations]

\* a run of a tool instance that has run before: _run starts from
\* violations = [], the instance holds the compiled patterns and nothing
\* of its earlier runs
AuditAgain(previous, files) == CreedAuditRun(files)

\* audit_creed called a second time on the same files, nothing in between
CallAuditCreedAgain ==
    /\ event.event = "audit_creed"
    /\ event.run = 1
    /\ Respond([event EXCEPT !.run = 2, !.previous = report.violations],
               NoAnswers,
               [output |-> AuditAgain(report.violations, event.files),
                calls |-> <<>>, dir |-> scrolls])

NextTools ==
    \/ \E tail_lines \in TailLengths, file \in LogFiles : CallTailLog(tail_lines, file)
    \/ \E files \in FileLists(MaxFiles) : CallAuditCreed(files)
    \/ CallAuditCreedAgain
    \/ Return

SpecTools == Init /\ [][NextTools]_vars

(***************************************************************************)
(* SpecRuns: two supervise runs, triggered by two events, in flight at     *)
(* once.  A run is a chain of steps; a step ends where the run touches the *)
(* scrolls directory, the one resource the runs share, so that the steps   *)
(* of the two runs interleave at every such point.  Each request is served *)
(* by a WatchdogAgent of its own, whose handlers keep their lists in local *)
(* variables.                                                              *)
(***************************************************************************)
\* what the collaborators answer to a run of this kind
RunAnswers(kind) ==
    {a \in Answers(kind) :
        /\ Consistent(a)
        /\ a.log \in {LogNotRead, CleanLog, OomLog}
        /\ a.git \in {GitNotCalled, [rc |-> "exception", stdout |-> <<>>],
                      [rc |-> "0", stdout |-> <<"notes.txt", "ok.py">>],
                      [rc |-> "0", stdout |-> <<"bad.py", "gone.py", "notes.txt">>]}
        /\ a.creds.user_key = a.creds.api_token}

\* the context of a step of a run whose pager call is answered by o
StepCtx(run, o) ==
    [log |-> run.ctx.log, git |-> run.ctx.git, creds |-> run.ctx.creds,
     oracle |-> [k \in 1..2 |-> o], now |-> minute]

\* the lists of the handlers are local variables of the call
\* (actions_taken = [], issues_found = [], paged = False), and every
\* request creates its own WatchdogAgent: what a step of run r leaves is
\* kept with run r, away from the directory the runs share
Lists(res) == [res EXCEPT !.dir = <<>>]

Keep_Shared(all, r, run) ==
    [q \in RunIds |->
        IF q = r THEN run
        ELSE IF all[q].pc \notin {"idle", "done"} THEN [all[q] EXCEPT !.own = run.own]
        ELSE all[q]]

Keep(all, r, run) == [all EXCEPT ![r] = run]

\* supervise_cycle is entered: the arguments are validated and run begins
Begin(r, kind, path) ==
    /\ runs[r].pc = "idle"
    /\ kind = "scroll_committed" <=> path # NONE
    /\ \E e \in RunAnswers(kind) :
           runs' = Keep(runs, r,
                        [IdleRun EXCEPT
                            !.pc = IF kind = "scroll_committed" THEN "critique"
                                   ELSE "cycle_end",
                            !.input = [event |-> kind, scroll_path |-> path],
                            !.ctx = e,
                            !.latest = path])
    /\ UNCHANGED <<scrolls, minute, event, env, scrolls0, report, calls>>

\* _handle_cycle_end, up to and with its pager call
StepCycleEnd(r) ==
    /\ runs[r].pc = "cycle_end"
    /\ \E o \in Oracle(runs[r].ctx.creds) :
       \E res \in {HandleCycleEnd(StepCtx(runs[r], o), 0, scrolls)} :
           /\ Len(res.dir) <= MaxScrolls
           /\ scrolls' = res.dir
           /\ runs' = Keep(runs, r,
                           [runs[r] EXCEPT
                               !.own = Lists(res),
                               !.pc = IF runs[r].input.event = "cycle_end"
                                      THEN "done" ELSE "latest"])
    /\ UNCHANGED <<minute, event, env, scrolls0, report, calls>>

StepLatest_Exclusive(r) ==
    /\ runs[r].pc = "latest"
    /\ \A q \in RunIds \ {r} : runs[q].pc \in {"idle", "done", "returned"}
    /\ \E latest_scroll \in {GetLatestScroll(scrolls)} :
           runs' = Keep(runs, r,
                        IF Truthy(latest_scroll)
                        THEN [runs[r] EXCEPT !.latest = latest_scroll,
                                             !.pc = "critique"]
                        ELSE [runs[r] EXCEPT
                                 !.own = Did(@, "No recent scrolls found"),
                                 !.pc = "done"])
    /\ UNCHANGED <<scrolls, minute, event, env, scrolls0, report, calls>>

\* _handle_manual_check: self._get_latest_scroll()
StepLatest(r) ==
    /\ runs[r].pc = "latest"
    /\ \E latest_scroll \in {GetLatestScroll(scrolls)} :
           runs' = Keep(runs, r,
                        IF Truthy(latest_scroll)
                        THEN [runs[r] EXCEPT !.latest = latest_scroll,
                                             !.pc = "critique"]
                        ELSE [runs[r] EXCEPT
                                 !.own = Did(@, "No recent scrolls found"),
                                 !.pc = "done"])
    /\ UNCHANGED <<scrolls, minute, event, env, scrolls0, report, calls>>

\* _handle_scroll_committed: self.plan_critic.run
StepCritique(r) ==
    /\ runs[r].pc = "critique"
    /\ runs' = Keep(runs, r,
                    [runs[r] EXCEPT !.verdict = PlanCriticRun(runs[r].latest, scrolls),
                                    !.pc = "page"])
    /\ UNCHANGED <<scrolls, minute, event, env, scrolls0, report, calls>>

\* _handle_scroll_committed, from the critique on, with its pager call;
\* in a manual_check run its result is added to that of the cycle_end part
StepPage(r) ==
    /\ runs[r].pc = "page"
    /\ \E o \in Oracle(runs[r].ctx.creds) :
       \E res \in {AfterCritique(Did(Fresh(scrolls),
                                     "Critiquing plan: " \o runs[r].latest),
                                 StepCtx(runs[r], o), 0, runs[r].verdict)} :
           /\ Len(res.dir) <= MaxScrolls
           /\ scrolls' = res.dir
           /\ runs' = Keep(runs, r,
                           [runs[r] EXCEPT
                               !.own = IF runs[r].input.event = "manual_check"
                                       THEN Lists(WithScrollResult(
                                                runs[r].own, runs[r].latest, res))
                                       ELSE Lists(res),
                               !.pc = "done"])
    /\ UNCHANGED <<minute, event, env, scrolls0, report, calls>>

\* the report of the run is returned to its caller; the agent and its
\* lists are gone
Finish(r) ==
    /\ runs[r].pc = "done"
    /\ runs' = Keep(runs, r, [IdleRun EXCEPT !.pc = "returned"])
    /\ UNCHANGED <<scrolls, minute, event, env, scrolls0, report, calls>>

\* the paths a caller may name in a scroll_committed event of these runs
RunPaths(dir) ==
    {NONE, "./.scrolls/ghost.md"} \cup {ScrollPath(dir[i].name) : i \in 1..Len(dir)}

NextRuns ==
    \/ \E r \in RunIds, kind \in EventKinds, path \in RunPaths(scrolls) :
           Begin(r, kind, path)
    \/ \E r \in RunIds : StepCycleEnd(r)
    \/ \E r \in RunIds : StepLatest(r)
    \/ \E r \in RunIds : StepCritique(r)
    \/ \E r \in RunIds : StepPage(r)
    \/ \E r \in RunIds : Finish(r)

SpecRuns == Init /\ [][NextRuns]_vars

(***************************************************************************)
(* SpecSettle is the supervision service while nothing happens: the author *)
(* has left the proposals as they are, the log holds no error and no       *)
(* source file has changed, and the caller repeats manual_check requests,  *)
(* each of which runs to its end and returns.                              *)
(***************************************************************************)
\* what the collaborators answer while nothing happens
QuietAnswers ==
    {a \in Answers("manual_check") :
        /\ Consistent(a)
        /\ a.log = CleanLog
        /\ GetChangedFiles(a.git) = <<>>}

\* the directories the author can have left: up to two writes of proposals
AuthoredDirs ==
    LET Writes(dirs) ==
            {WriteFile(dir, name, text) :
                dir \in dirs,
                name \in ProposalNames,
                text \in UNION {ProposalTexts(n) : n \in ProposalNames}}
        Authored(dirs) ==
            {dir \in Writes(dirs) :
                \A i \in 1..Len(dir) : dir[i].content \in ProposalTexts(dir[i].name)}
    IN  {<<>>} \cup Authored({<<>>}) \cup Authored(Authored({<<>>}))

InitSettle ==
    /\ runs = [r \in RunIds |-> IdleRun]
    /\ scrolls \in {dir \in AuthoredDirs : Len(dir) <= MaxScrolls}
    /\ minute = 0
    /\ event = NoEvent
    /\ env = NoAnswers
    /\ scrolls0 = <<>>
    /\ report = NoReport
    /\ calls = <<>>

\* supervise_cycle with the event manual_check, while nothing happens
ManualCheckQuiet ==
    /\ Idle
    /\ \E e \in QuietAnswers :
       \E oracle \in [1..MaxCalls("manual_check") -> Oracle(e.creds)] :
       \E out \in {SuperviseCycle([event |-> "manual_check", scroll_path |-> NONE],
                                  [log |-> e.log, git |-> e.git, creds |-> e.creds,
                                   oracle |-> oracle, now |-> minute],
                                  scrolls)} :
           Respond([event |-> "manual_check", scroll_path |-> NONE], e, out)

NextSettle ==
    \/ ManualCheckQuiet
    \/ Return
    \/ Tick

\* every run returns (supervise_cycle is synchronous), and the caller asks
\* again and again
SpecSettle ==
    InitSettle /\ [][NextSettle]_vars /\ WF_vars(Return) /\ []<>(~Idle)

(***************************************************************************)
(* Properties of one supervise run, read off the state it leaves behind.   *)
(***************************************************************************)
Served == event.event \in EventKinds

Delivered(k) == calls[k].status = "success"

BothCredentials == env.creds.user_key /\ env.creds.api_token

\* what the recorded pager calls were answered by the network and the disk
RecordedOracle ==
    [k \in 1..2 |-> IF k <= Len(calls)
                    THEN [net |-> calls[k].net, disk |-> calls[k].disk]
                    ELSE [net |-> "exception", disk |-> "error"]]

RecordedCtx ==
    [log |-> env.log, git |-> env.git, creds |-> env.creds,
     oracle |-> RecordedOracle, now |-> minute]

\* s holds the elements of t, in order, from position n + 1 on
HoldsAt(s, n, t) ==
    /\ Len(s) >= n + Len(t)
    /\ \A i \in 1..Len(t) : s[n + i] = t[i]

\* C1: the report of every supervise run (cycle_end, scroll_committed,
\* manual_check) has paged = TRUE exactly when at least one pager call of
\* that run returned status "success".
C1_PagedIffDelivered ==
    Served => (report.paged <=> \E k \in 1..Len(calls) : Delivered(k))

\* a manual_check run whose first pager call failed and whose second one
\* was delivered
C1_Witness ==
    /\ event.event = "manual_check"
    /\ Len(calls) = 2
    /\ ~Delivered(1)
    /\ Delivered(2)
    /\ report.paged

\* C2 as stated: a cycle_end run whose log contains an error makes exactly
\* one pager call, of priority 1, records "Checking log for errors" and the
\* error, and reports paged = TRUE.
C2_ErrorRunAlwaysPaged ==
    (event.event = "cycle_end" /\ env.log = OomLog) =>
        /\ Len(calls) = 1
        /\ calls[1].priority = 1
        /\ "Checking log for errors" \in Range(report.actions_taken)
        /\ ("Error found in log: " \o LogResults[env.log].last_error)
               \in Range(report.issues_found)
        /\ report.paged

\* C2 amended: a cycle_end run whose log contains an error makes exactly
\* one pager call, of priority 1, records "Checking log for errors" and the
\* error, and reports paged = TRUE exactly when that one call was delivered
\* (paged = FALSE when both channels failed).
C2_ErrorRunPagesOnce ==
    (event.event = "cycle_end" /\ env.log = OomLog) =>
        /\ Len(calls) = 1
        /\ calls[1].priority = 1
        /\ calls[1].title = "Error detected in training log"
        /\ "Checking log for errors" \in Range(report.actions_taken)
        /\ ("Error found in log: " \o LogResults[env.log].last_error)
               \in Range(report.issues_found)
        /\ report.paged <=> Delivered(1)

\* a cycle_end run on a log with an error whose only pager call failed
C2_Witness ==
    /\ event.event = "cycle_end"
    /\ env.log = OomLog
    /\ Len(calls) = 1
    /\ calls[1].status = "failure"
    /\ ~report.paged

\* C3: in a cycle_end run with no log error and a non-empty set of changed
\* source files the auditor is run over those files; k >= 1 violations are
\* all appended to issues_found and exactly one pager call is made; with no
\* violation no pager call is made and paged is FALSE.
C3_AuditAggregated ==
    LET changed_files == GetChangedFiles(env.git)
        violations == CreedAuditRun(changed_files).violations
    IN  (event.event = "cycle_end" /\ env.log = CleanLog /\ changed_files # <<>>) =>
            /\ ("Auditing " \o ToString(Len(changed_files)) \o " changed files")
                   \in Range(report.actions_taken)
            /\ IF Len(violations) >= 1
               THEN /\ HoldsAt(report.issues_found, 0, violations)
                    /\ Len(calls) = 1
                    /\ calls[1].title = "Creed violations detected"
               ELSE /\ calls = <<>>
                    /\ report.issues_found = <<>>
                    /\ ~report.paged

\* a cycle_end run that audited changed files and found four violations,
\* reported in one delivered page
C3_Witness ==
    /\ event.event = "cycle_end"
    /\ env.log = CleanLog
    /\ Len(CreedAuditRun(GetChangedFiles(env.git)).violations) = 4
    /\ Len(report.issues_found) = 4
    /\ Len(calls) = 1
    /\ report.paged

\* C4: a scroll_committed run with a document path critiques that document;
\* a score below 80 is recorded with every issue of the critic and exactly
\* one pager call is made; a score of 80 or more makes no pager call,
\* records "Plan score is acceptable" and reports paged = FALSE.
C4_ScrollCommitted ==
    LET critique == PlanCriticRun(event.scroll_path, scrolls0)
        score == ToString(critique.score) \o "/100"
    IN  (event.event = "scroll_committed" /\ Truthy(event.scroll_path)) =>
            /\ HoldsAt(report.actions_taken, 0,
                       <<"Critiquing plan: " \o event.scroll_path>>)
            /\ IF critique.score < 80
               THEN /\ HoldsAt(report.issues_found, 0,
                               <<"Plan score is below threshold: " \o score>>
                                 \o critique.issues)
                    /\ Len(calls) = 1
                    /\ calls[1].title = "Plan critique: " \o score
               ELSE /\ calls = <<>>
                    /\ report.actions_taken[Len(report.actions_taken)]
                           = "Plan score is acceptable: " \o score
                    /\ ~report.paged

\* a scroll_committed run on a document that scores 85
C4_Witness ==
    /\ event.event = "scroll_committed"
    /\ Truthy(event.scroll_path)
    /\ PlanCriticRun(event.scroll_path, scrolls0).score = 85
    /\ "Plan score is acceptable: 85/100" \in Range(report.actions_taken)
    /\ calls = <<>>

\* C5: for every proposal document, the critic's score is below 80 exactly
\* when the scroll_committed run on it returns a non-empty issues_found.
C5_LowScoreIffIssues ==
    (event.event = "scroll_committed" /\ Truthy(event.scroll_path)) =>
        (PlanCriticRun(event.scroll_path, scrolls0).score < 80
            <=> report.issues_found # <<>>)

\* a scroll_committed run on a document that scores 70, paged about
C5_Witness ==
    /\ event.event = "scroll_committed"
    /\ Truthy(event.scroll_path)
    /\ PlanCriticRun(event.scroll_path, scrolls0).score = 70
    /\ report.issues_found # <<>>
    /\ report.paged

Category(title) ==
    CASE title = "Error detected in training log" -> "log error"
      [] title = "Creed violations detected" -> "rule violations"
      [] OTHER -> "low proposal score"

\* C7: in one run the pager is called at most once per problem category:
\* at most once in a cycle_end run, at most once in a scroll_committed run,
\* at most twice in a manual_check run (never for both a log error and rule
\* violations), and a call that failed is not made again: each call makes
\* one attempt on each channel at most.
C7_AtMostOncePerCategory ==
    Served =>
        /\ Len(calls) <= IF event.event = "manual_check" THEN 2 ELSE 1
        /\ \A i, j \in 1..Len(calls) :
               i < j => /\ Category(calls[i].title) # Category(calls[j].title)
                        /\ Category(calls[i].title) \in {"log error", "rule violations"}
                        /\ Category(calls[j].title) = "low proposal score"
        /\ \A k \in 1..Len(calls) :
               /\ Count(calls[k].steps, "_send_pushover") = 1
               /\ Count(calls[k].steps, "requests.post") <= 1
               /\ Count(calls[k].steps, "_create_ninjascroll") <= 1

\* a manual_check run whose two pager calls both failed, on the network and
\* on the disk
C7_Witness ==
    /\ event.event = "manual_check"
    /\ Len(calls) = 2
    /\ BothCredentials
    /\ \A k \in 1..2 : calls[k].status = "failure" /\ calls[k].net # "200"

PrimarySucceeded(k) == BothCredentials /\ calls[k].net = "200"

FallbackSucceeded(k) == calls[k].disk = "ok"

\* C8: every pager call tries the primary channel first and the fallback
\* channel only after the primary was unavailable or failed; the push
\* service is contacted only when both credentials are set; the outcome is
\* (success, pushover) iff the primary succeeded, (success, ninjascroll)
\* iff the primary failed and the fallback write succeeded, (failure, none)
\* iff both failed.
C8_PrimaryThenFallback ==
    \A k \in 1..Len(calls) :
        LET c == calls[k]
        IN  /\ c.steps[1] = "_send_pushover"
            /\ "requests.post" \in Range(c.steps) => BothCredentials
            /\ "_create_ninjascroll" \in Range(c.steps) =>
                   /\ c.steps[Len(c.steps)] = "_create_ninjascroll"
                   /\ ~PrimarySucceeded(k)
            /\ (c.status = "success" /\ c.method = "pushover") <=> PrimarySucceeded(k)
            /\ (c.status = "success" /\ c.method = "ninjascroll")
                   <=> (~PrimarySucceeded(k) /\ FallbackSucceeded(k))
            /\ (c.status = "failure" /\ c.method = "none")
                   <=> (~PrimarySucceeded(k) /\ ~FallbackSucceeded(k))

\* a direct pager call with both credentials whose request raised and whose
\* fallback record was written
C8_Witness ==
    /\ event.event = "page_ninja"
    /\ BothCredentials
    /\ calls[1].net = "exception"
    /\ calls[1].steps = <<"_send_pushover", "requests.post", "_create_ninjascroll">>
    /\ calls[1].method = "ninjascroll"

\* C9 as stated: without the primary-channel credentials the channel of
\* the outcome is always the fallback.
C9_NoCredentialsAlwaysFallback ==
    \A k \in 1..Len(calls) : ~BothCredentials => calls[k].method = "ninjascroll"

\* C9 amended: without the primary-channel credentials the channel of the
\* outcome is never the primary: it is the fallback when the fallback record
\* was written and none when that write failed.
C9_NoCredentialsNeverPrimary ==
    \A k \in 1..Len(calls) :
        ~BothCredentials =>
            /\ calls[k].method # "pushover"
            /\ calls[k].method = "ninjascroll" <=> calls[k].disk = "ok"
            /\ calls[k].method = "none" <=> calls[k].disk = "error"

\* a direct pager call with one credential missing whose fallback write failed
C9_Witness ==
    /\ event.event = "page_ninja"
    /\ env.creds.user_key
    /\ ~env.creds.api_token
    /\ calls[1].disk = "error"
    /\ calls[1].method = "none"

\* C10: when there are no credentials and the fallback directory cannot be
\* written, every pager call returns (failure, none), and the run that
\* needed the alert still returns a complete report: status completed,
\* paged = FALSE, one "Failed to page Hayato" issue per call.
C10_BothChannelsFail ==
    (/\ Served
     /\ calls # <<>>
     /\ ~env.creds.user_key /\ ~env.creds.api_token
     /\ \A k \in 1..Len(calls) : calls[k].disk = "error") =>
        /\ \A k \in 1..Len(calls) :
               /\ calls[k].status = "failure"
               /\ calls[k].method = "none"
               /\ calls[k].file = NONE
        /\ report.status = "completed"
        /\ report.actions_taken # <<>>
        /\ ~report.paged
        /\ Count(report.issues_found, "Failed to page Hayato") = Len(calls)
        /\ scrolls = scrolls0

\* a cycle_end run on a log with an error, no credentials and a disk that
\* refuses the fallback record
C10_Witness ==
    /\ event.event = "cycle_end"
    /\ env.log = OomLog
    /\ ~env.creds.user_key /\ ~env.creds.api_token
    /\ Len(calls) = 1
    /\ calls[1].disk = "error"
    /\ report.issues_found[Len(report.issues_found)] = "Failed to page Hayato"

\* C11: a failed step does not abort the rest of a run: in a manual_check
\* run whose cycle_end part called the pager and the call failed, the
\* failure is recorded in issues_found, the latest document is still looked
\* up, and the scroll_committed part on it is still run and reported.
C11_FailedPageDoesNotAbort ==
    (/\ event.event = "manual_check"
     /\ calls # <<>>
     /\ Category(calls[1].title) # "low proposal score"
     /\ ~Delivered(1)) =>
        LET latest == GetLatestScroll(scrolls0)
            critique == PlanCriticRun(latest, scrolls0)
        IN  /\ report.status = "completed"
            /\ "Failed to page Hayato" \in Range(report.issues_found)
            /\ IF Truthy(latest)
               THEN /\ \E i \in 1..Len(report.actions_taken) :
                          HoldsAt(report.actions_taken, i - 1,
                                  <<"Found latest scroll: " \o latest,
                                    "Critiquing plan: " \o latest>>)
                    /\ IF critique.score < AcceptanceThreshold
                       THEN /\ Len(calls) = 2
                            /\ ("Plan score is below threshold: "
                                    \o ToString(critique.score) \o "/100")
                                   \in Range(report.issues_found)
                       ELSE /\ Len(calls) = 1
                            /\ ("Plan score is acceptable: "
                                    \o ToString(critique.score) \o "/100")
                                   \in Range(report.actions_taken)
               ELSE /\ Len(calls) = 1
                    /\ report.actions_taken[Len(report.actions_taken)]
                           = "No recent scrolls found"

\* a manual_check run whose page about rule violations failed and whose
\* page about the low score of the latest document was delivered
C11_Witness ==
    /\ event.event = "manual_check"
    /\ Len(calls) = 2
    /\ calls[1].title = "Creed violations detected"
    /\ calls[1].status = "failure"
    /\ calls[2].status = "success"
    /\ "Failed to page Hayato" \in Range(report.issues_found)
    /\ \E i \in 1..Len(report.actions_taken) :
           report.actions_taken[i] = "Found latest scroll: " \o GetLatestScroll(scrolls0)

\* the fault raised inside the run of the request served last: the
\* arguments are no valid event, or the log cannot be decoded
RunFault ==
    IF event.event \notin EventKinds THEN ValidationError(event)
    ELSE IF event.event \in {"cycle_end", "manual_check"} /\ env.log = UndecodableLog
    THEN DecodeError
    ELSE NONE

\* C12: supervise_cycle raises nothing past its boundary: a fault raised
\* inside a run (invalid event input included) is returned as a report with
\* status "error" whose issues_found contains the message of the fault; the
\* report of every other run has status "completed".
C12_FaultsBecomeErrorReports ==
    event.event \in EventInputs =>
        IF RunFault # NONE
        THEN /\ report.status = "error"
             /\ \E i \in 1..Len(report.issues_found) :
                    Find(report.issues_found[i], RunFault, 1) # 0
             /\ report.actions_taken = <<>>
             /\ ~report.paged
             /\ calls = <<>>
             /\ scrolls = scrolls0
        ELSE report.status = "completed"

\* a manual_check run on a log that cannot be decoded, with a document in
\* the scrolls directory, returned as an error report
C12_Witness ==
    /\ event.event = "manual_check"
    /\ env.log = UndecodableLog
    /\ scrolls # <<>>
    /\ report.status = "error"
    /\ report.issues_found = <<"Internal error: " \o DecodeError>>

(***************************************************************************)
(* Properties of one tail_log call, read off the state it leaves behind.   *)
(***************************************************************************)
TailLogCalled == event.event = "tail_log"

\* the content the call parsed
TailedContent == TailLog(event.tail_lines, env.log)

\* C13: when the log file is missing or unreadable, the summary of the
\* report states the failure and last_error is absent.
C13_MissingLogHasNoLastError ==
    (TailLogCalled /\ env.log.state \in {"missing", "unreadable"}) =>
        /\ Find(report.summary, "Could not tail log file " \o PathsLOG, 1) # 0
        /\ report.last_error = NONE

\* the spans of the matches of all the error patterns in content
AllSpans(content) ==
    UNION {Range(MatchSpans(ErrorPatterns[p], content, 1)) : p \in 1..Len(ErrorPatterns)}

\* C14: last_error is the match, among the matches of all the error
\* patterns in the tailed content, whose end is the latest in the text; it
\* is absent exactly when no pattern matches.
C14_LastErrorEndsLatest ==
    TailLogCalled =>
        IF AllSpans(TailedContent) = {} THEN report.last_error = NONE
        ELSE \E span \in AllSpans(TailedContent) :
                 /\ \A other \in AllSpans(TailedContent) : other.end <= span.end
                 /\ report.last_error = Group0(TailedContent, span)

\* C15: the last_error returned is never longer than 500 characters.
C15_LastErrorAtMost500 ==
    (TailLogCalled /\ report.last_error # NONE) => Len(report.last_error) <= 500

\* C16: the line count of the summary is the number of lines of the tailed
\* content, whatever the tail length and the content (a content that ends
\* with a newline and the empty content included).
C16_SummaryCountsLines ==
    (TailLogCalled /\ env.log.state = "present") =>
        Find(report.summary,
             "Log Summary (" \o ToString(LineCount(TailedContent)) \o " lines, ", 1) = 1

\* the positions of the timestamps of content
TimestampPositions(content) == {i \in 1..Len(content) : TimestampAt(content, i)}

\* C17: with fewer than two timestamps in the tailed content, elapsed is
\* the "Unknown (insufficient timestamps)" value; a content with no
\* timestamp and no error signature has no last_error.
C17_FewTimestampsUnknown ==
    TailLogCalled =>
        /\ Cardinality(TimestampPositions(TailedContent)) < 2
               => report.elapsed = "Unknown (insufficient timestamps)"
        /\ (/\ TimestampPositions(TailedContent) = {}
            /\ \A p \in 1..Len(ErrorPatterns) :
                   Occurrences(TailedContent, ErrorPatterns[p]) = {})
               => report.last_error = NONE

\* a call that tailed the last line of a log with two timestamped lines
C17_Witness ==
    /\ TailLogCalled
    /\ event.tail_lines = 1
    /\ env.log.state = "present"
    /\ Cardinality(TimestampPositions(env.log.text)) = 2
    /\ Cardinality(TimestampPositions(TailedContent)) = 1
    /\ report.elapsed = "Unknown (insufficient timestamps)"

\* the date and time of the timestamp at position i of content
DateAt(content, i) == Strptime(SubSeq(content, i, i + Len(TimestampShape) - 1))

\* the seconds from the timestamp at position i to the one at position j
SecondsBetween(content, i, j) ==
    (DateAt(content, j).ordinal - DateAt(content, i).ordinal) * 86400
        + (DateAt(content, j).second - DateAt(content, i).second)

Magnitude(n) == IF n >= 0 THEN n ELSE 0 - n

\* a duration in seconds, from its coarsest non-zero unit on
Duration(total) ==
    LET d == total \div 86400
        h == (total % 86400) \div 3600
        m == (total % 3600) \div 60
        sec == total % 60
    IN  IF d > 0
        THEN ToString(d) \o "d " \o ToString(h) \o "h " \o ToString(m) \o "m "
             \o ToString(sec) \o "s"
        ELSE IF h > 0 THEN ToString(h) \o "h " \o ToString(m) \o "m " \o ToString(sec) \o "s"
        ELSE IF m > 0 THEN ToString(m) \o "m " \o ToString(sec) \o "s"
        ELSE ToString(sec) \o "s"

\* C18: with at least two timestamps in the tailed content (the first and
\* the last being dates), elapsed is the duration between the first and the
\* last, formatted from its coarsest non-zero unit on, finer units shown.
C18_ElapsedIsDuration ==
    (/\ TailLogCalled
     /\ Cardinality(TimestampPositions(TailedContent)) >= 2
     /\ DateAt(TailedContent, Least(TimestampPositions(TailedContent))).ok
     /\ DateAt(TailedContent, Greatest(TimestampPositions(TailedContent))).ok) =>
        report.elapsed =
            Duration(Magnitude(
                SecondsBetween(TailedContent,
                               Least(TimestampPositions(TailedContent)),
                               Greatest(TimestampPositions(TailedContent)))))

(***************************************************************************)
(* Properties of one audit_creed call.                                     *)
(***************************************************************************)
AuditCalled == event.event = "audit_creed"

\* the record names the path
RefersTo(record, file) == Find(record, file, 1) # 0

\* C19 as stated: every record of the output refers to a file that exists
\* and is a source-text file (.py, .pyx, .pyi): none refers to a missing
\* file or to a file of another type.
C19_RecordsOnlyForSourceFiles ==
    AuditCalled =>
        \A k \in 1..Len(report.violations) : \A file \in AuditPaths :
            RefersTo(report.violations[k], file)
                => FileExists(file) /\ HasSourceExt(file)

\* C19 amended: every record of the output refers to a path of the input;
\* it refers to a file that exists and is a source-text file, or it is the
\* synthetic "File not found" record of a path that does not exist; no
\* record refers to an existing file of another type.
C19_RecordsForSourceOrMissing ==
    AuditCalled =>
        \A k \in 1..Len(report.violations) :
            /\ \E file \in Range(event.files) : RefersTo(report.violations[k], file)
            /\ \A file \in AuditPaths :
                   RefersTo(report.violations[k], file) =>
                       IF FileExists(file) THEN HasSourceExt(file)
                       ELSE report.violations[k] = "File not found: " \o file

\* an audit of a missing source file and an existing text file: one
\* record, for the missing file
C19_Witness ==
    /\ AuditCalled
    /\ event.files = <<"notes.txt", "gone.py">>
    /\ report.violations = <<"File not found: gone.py">>

\* C20: for each path of the input, in input order: a path that does not
\* exist yields exactly one "File not found" record, an existing path of
\* another type yields no record, and neither stops the audit of the paths
\* after it.
C20_MissingAndSkippedContinue ==
    AuditCalled =>
        /\ \A i \in 1..Len(event.files) :
               LET file == event.files[i]
               IN  IF ~FileExists(file)
                   THEN Count(report.violations, "File not found: " \o file)
                            = Count(event.files, file)
                   ELSE IF ~HasSourceExt(file)
                   THEN \A k \in 1..Len(report.violations) :
                            ~RefersTo(report.violations[k], file)
                   ELSE FileReadable(file) =>
                            \A r \in Range(FileViolations[file]) :
                                Count(report.violations, r) = Count(event.files, file)
        /\ \A a, b \in 1..Len(report.violations) :
               a < b =>
                   \E i, j \in 1..Len(event.files) :
                       /\ i <= j
                       /\ RefersTo(report.violations[a], event.files[i])
                       /\ RefersTo(report.violations[b], event.files[j])

\* an audit of a missing file followed by a file with three violations
C20_Witness ==
    /\ AuditCalled
    /\ event.files = <<"gone.py", "bad.py">>
    /\ Len(report.violations) = 4
    /\ report.violations[1] = "File not found: gone.py"
    /\ RefersTo(report.violations[4], "bad.py")

\* the call audited one file that exists, is a source file and was read
AuditedOne ==
    /\ AuditCalled
    /\ Len(event.files) = 1
    /\ FileExists(event.files[1])
    /\ HasSourceExt(event.files[1])
    /\ FileReadable(event.files[1])

\* the pairs <<rule, line>> of a file in which the pattern of the rule is
\* found in the line and the stripped line does not begin with '#'
ViolatingPairs(lines) ==
    {p \in (1..Len(RuleOrder)) \X (1..Len(lines)) :
        /\ PatternSearch(RuleOrder[p[1]], lines[p[2]])
        /\ ~Reads(Strip(lines[p[2]]), 1, "#")}

\* rule-major, line-ascending within a rule
PairBefore(p, q) == p[1] < q[1] \/ (p[1] = q[1] /\ p[2] < q[2])

\* the record starts with head
StartsWith(record, head) == Reads(record, 1, head)

\* C21: for one file, the output holds exactly one record for every (rule,
\* line) pair whose pattern matches the line while the stripped line does
\* not begin with '#', and nothing else, ordered rule-major and
\* line-ascending within a rule; a non-comment line `if x is None:` at line
\* 5 yields exactly one is_none record at line 5, and the same text as a
\* comment line yields none.
C21_OneRecordPerRuleAndLine ==
    AuditedOne =>
        LET file == event.files[1]
            lines == Split(FileContent(file), "\n")
            pairs == ViolatingPairs(lines)
        IN  /\ Len(report.violations) = Cardinality(pairs)
            /\ \A p \in pairs :
                   report.violations[1 + Cardinality({q \in pairs : PairBefore(q, p)})]
                       = FormatViolation(file, p[2], lines[p[2]], RuleOrder[p[1]])
            /\ \A i \in 1..Len(lines) :
                   LET is_none == file \o ":" \o ToString(i) \o ": Using 'is None' check"
                       at_line == file \o ":" \o ToString(i) \o ": "
                   IN  /\ lines[i] = "if x is None:" =>
                              Cardinality({k \in 1..Len(report.violations) :
                                  StartsWith(report.violations[k], is_none)}) = 1
                       /\ lines[i] = "# if x is None:" =>
                              \A k \in 1..Len(report.violations) :
                                  ~StartsWith(report.violations[k], at_line)

\* an audit of mixed.py: nine records, the is_none record of line 2 first,
\* the hasattr record of line 1 sixth, no record for the comment of line 3
C21_Witness ==
    /\ AuditedOne
    /\ event.files = <<"mixed.py">>
    /\ Len(report.violations) = 9
    /\ StartsWith(report.violations[1], "mixed.py:2: Using 'is None' check")
    /\ StartsWith(report.violations[6], "mixed.py:1: Using hasattr()")
    /\ \A k \in 1..9 : ~StartsWith(report.violations[k], "mixed.py:3:")

DocumentMissing == Lookup(scrolls0, event.scroll_path) = {}

DocumentUnreadable ==
    \E i \in Lookup(scrolls0, event.scroll_path) : scrolls0[i].content = NoText

\* C23: the critique of a missing or unreadable document is score 0 with
\* exactly one issue that describes the failure, and nothing is raised; a
\* scroll_committed run on such a document takes the low-score path: it
\* records the issues and makes exactly one pager call.
C23_UnreadableDocumentScoresZero ==
    (/\ event.event = "scroll_committed"
     /\ Truthy(event.scroll_path)
     /\ DocumentMissing \/ DocumentUnreadable) =>
        LET failure == IF DocumentMissing
                       THEN "Scroll not found: " \o event.scroll_path
                       ELSE "Error reading scroll: " \o DecodeError
        IN  /\ report.status = "completed"
            /\ Len(calls) = 1
            /\ calls[1].title = "Plan critique: 0/100"
            /\ report.issues_found =
                   <<"Plan score is below threshold: 0/100", failure>>
                     \o (IF Delivered(1) THEN <<>> ELSE <<"Failed to page Hayato">>)
            /\ report.paged <=> Delivered(1)

\* a scroll_committed run on a document that is no text, paged about
C23_Witness ==
    /\ event.event = "scroll_committed"
    /\ DocumentUnreadable
    /\ Len(report.issues_found) = 2
    /\ report.issues_found[2] = "Error reading scroll: " \o DecodeError
    /\ Len(calls) = 1
    /\ report.paged

\* C24: for every proposal document (present, missing, unreadable, with or
\* without any content signal) the score of the critique is an integer
\* from 0 to 100.
C24_ScoreInRange ==
    event.event = "critique_plan" => report.score \in 0..100

\* a critique of a document that is no text, with another file beside it
\* in the directory
C24_Witness ==
    /\ event.event = "critique_plan"
    /\ DocumentUnreadable
    /\ Len(scrolls) = 2
    /\ report.score = 0
    /\ report.issues = <<"Error reading scroll: " \o DecodeError>>

(***************************************************************************)
(* Properties of the fallback records.                                     *)
(***************************************************************************)
\* C25: writers to the fallback directory do not collide on name: every
\* fallback notification that is reported delivered is stored under a file
\* name that no file of the directory had before, so that the record of an
\* alert delivered earlier is never overwritten.
C25_FallbackNamesDistinct ==
    \A k \in 1..Len(calls) :
        (calls[k].status = "success" /\ calls[k].method = "ninjascroll") =>
            /\ \A i \in 1..Len(scrolls0) : scrolls0[i].name # calls[k].file
            /\ \A j \in 1..(k - 1) : calls[j].file # calls[k].file

(***************************************************************************)
(* Properties of the discovery of changed files.                           *)
(***************************************************************************)
\* the paths of the listing of git that have a source extension
SourcePaths(stdout) ==
    SelectSeq(stdout, LAMBDA file :
        EndsWith(file, ".py") \/ EndsWith(file, ".pyx") \/ EndsWith(file, ".pyi"))

\* the number n of the entry "Auditing n changed files" of the report
Audited(n) == ("Auditing " \o ToString(n) \o " changed files") \in Range(report.actions_taken)

\* C26: when git cannot be started or fails, the discovery of changed files
\* yields no file and no error: a cycle_end run with no log error records
\* "No changed files found", does not audit, makes no pager call and
\* returns status completed with paged = FALSE.  When git succeeds, only
\* the paths with a source extension are handed to the auditor.
C26_NoVersionControlNoAudit ==
    (event.event = "cycle_end" /\ env.log = CleanLog) =>
        IF env.git.rc # "0" \/ SourcePaths(env.git.stdout) = <<>>
        THEN /\ report = [status |-> "completed",
                          actions_taken |->
                              <<"Checking log for errors",
                                "No errors found in log, checking for changed files",
                                "No changed files found">>,
                          issues_found |-> <<>>,
                          paged |-> FALSE]
             /\ calls = <<>>
             /\ scrolls = scrolls0
        ELSE /\ report.status = "completed"
             /\ Audited(Len(SourcePaths(env.git.stdout)))
             /\ \A n \in 0..3 : Audited(n) => n = Len(SourcePaths(env.git.stdout))
             /\ \A k \in 1..Len(report.issues_found) :
                    \/ report.issues_found[k] = "Failed to page Hayato"
                    \/ \E file \in Range(SourcePaths(env.git.stdout)) :
                           RefersTo(report.issues_found[k], file)

\* a cycle_end run on a clean log while git cannot be started
C26_Witness ==
    /\ event.event = "cycle_end"
    /\ env.log = CleanLog
    /\ env.git.rc = "exception"
    /\ report.actions_taken[3] = "No changed files found"
    /\ report.status = "completed"

(***************************************************************************)
(* Properties of the timestamps of a tail_log call.                        *)
(***************************************************************************)
\* elapsed is one of the "Unknown" values
ElapsedUnknown == StartsWith(report.elapsed, "Unknown (")

\* the days of a month of the calendar, 0 for a month that does not exist
MonthDays(year, month) ==
    CASE month \in {1, 3, 5, 7, 8, 10, 12} -> 31
      [] month \in {4, 6, 9, 11} -> 30
      [] month = 2 -> IF year % 4 = 0 /\ (year % 100 # 0 \/ year % 400 = 0)
                      THEN 29 ELSE 28
      [] OTHER -> 0

\* the timestamp at position i of content is a calendar date and time
IsCalendarTime(content, i) ==
    /\ ToInt(SubSeq(content, i, i + 3)) >= 1
    /\ ToInt(SubSeq(content, i + 8, i + 9))
           \in 1..MonthDays(ToInt(SubSeq(content, i, i + 3)),
                            ToInt(SubSeq(content, i + 5, i + 6)))
    /\ ToInt(SubSeq(content, i + 11, i + 12)) <= 23
    /\ ToInt(SubSeq(content, i + 14, i + 15)) <= 59
    /\ ToInt(SubSeq(content, i + 17, i + 18)) <= 59

\* C29 as stated: if any timestamp extracted from the tailed content is no
\* calendar date and time, elapsed is reported as unknown.
C29_AnyMalformedUnknown ==
    (/\ TailLogCalled
     /\ \E i \in TimestampPositions(TailedContent) : ~IsCalendarTime(TailedContent, i)) =>
        ElapsedUnknown

\* C29 amended: of two or more timestamps extracted, the first and the last
\* are parsed: elapsed is "Unknown (invalid timestamps)" exactly when one of
\* these two is no calendar date and time, and nothing is raised; a
\* malformed timestamp between them is not parsed and leaves elapsed the
\* duration from the first to the last.
C29_MalformedEndsUnknown ==
    (TailLogCalled /\ Cardinality(TimestampPositions(TailedContent)) >= 2) =>
        (report.elapsed = "Unknown (invalid timestamps)"
            <=> \/ ~IsCalendarTime(TailedContent, Least(TimestampPositions(TailedContent)))
                \/ ~IsCalendarTime(TailedContent,
                                   Greatest(TimestampPositions(TailedContent))))

\* a call on a log whose first timestamp is a date and whose last one is
\* the 30th of February
C29_Witness ==
    /\ TailLogCalled
    /\ Cardinality(TimestampPositions(TailedContent)) = 2
    /\ IsCalendarTime(TailedContent, Least(TimestampPositions(TailedContent)))
    /\ ~IsCalendarTime(TailedContent, Greatest(TimestampPositions(TailedContent)))
    /\ report.elapsed = "Unknown (invalid timestamps)"
    /\ Find(report.summary, "runtime: Unknown (invalid timestamps)", 1) # 0

(***************************************************************************)
(* Properties of the order of the steps of a cycle_end part.               *)
(***************************************************************************)
\* the position of an entry in actions_taken, 0 when it is not there
ActionAt(action) ==
    LET at == {i \in 1..Len(report.actions_taken) : report.actions_taken[i] = action}
    IN  IF at = {} THEN 0 ELSE Least(at)

AuditedAt ==
    LET at == {i \in 1..Len(report.actions_taken) :
                  StartsWith(report.actions_taken[i], "Auditing ")}
    IN  IF at = {} THEN 0 ELSE Least(at)

PagedAbout(title) == \E k \in 1..Len(calls) : calls[k].title = title

\* C30: in a cycle_end step the log check comes first and excludes the
\* audit: the changed files are discovered and audited only after the log
\* sentinel reported no last error; a run never pages about both a log
\* error and rule violations, and never audits when a log error is present.
C30_LogCheckExcludesAudit ==
    (event.event \in {"cycle_end", "manual_check"} /\ report.status = "completed") =>
        /\ ActionAt("Checking log for errors") = 1
        /\ ~(PagedAbout("Error detected in training log")
                /\ PagedAbout("Creed violations detected"))
        /\ IF Truthy(LogResults[env.log].last_error)
           THEN /\ PagedAbout("Error detected in training log")
                /\ AuditedAt = 0
                /\ ActionAt("No changed files found") = 0
                /\ ActionAt("No errors found in log, checking for changed files") = 0
                /\ ~PagedAbout("Creed violations detected")
           ELSE /\ ActionAt("No errors found in log, checking for changed files") = 2
                /\ AuditedAt \in {0, 3}
                /\ ~PagedAbout("Error detected in training log")

\* a cycle_end run on a log with an error: one page about the log error,
\* no audit
C30_Witness ==
    /\ event.event = "cycle_end"
    /\ env.log = OomLog
    /\ report.actions_taken[1] = "Checking log for errors"
    /\ report.actions_taken[2] = "Paging Hayato about log error"
    /\ AuditedAt = 0
    /\ Len(calls) = 1

(***************************************************************************)
(* Properties of the files a request leaves behind.                        *)
(***************************************************************************)
\* the pager calls of the request that wrote a fallback record
FallbackWrites ==
    {k \in 1..Len(calls) : calls[k].status = "success" /\ calls[k].method = "ninjascroll"}

FallbackFiles == {calls[k].file : k \in FallbackWrites}

\* C28: only the fallback channel of the pager writes to the filesystem:
\* the log sentinel, the auditor and the critic leave every file as it was,
\* a request that makes no pager call leaves the directory unchanged, and a
\* page delivered through the primary channel writes no fallback record.
C28_OnlyFallbackWrites ==
    event.event \in EventInputs =>
        /\ FallbackWrites = {} => scrolls = scrolls0
        /\ \A i \in 1..Len(scrolls) :
               scrolls[i].name \notin FallbackFiles => scrolls[i] \in Range(scrolls0)
        /\ \A i \in 1..Len(scrolls0) :
               scrolls0[i].name \notin FallbackFiles => scrolls0[i] \in Range(scrolls)
        /\ \A k \in 1..Len(calls) :
               calls[k].method = "pushover" =>
                   /\ calls[k].file = NONE
                   /\ "_create_ninjascroll" \notin Range(calls[k].steps)

\* a manual_check run that audited, critiqued and paged through the
\* primary channel, and left the directory as it found it
C28_Witness ==
    /\ event.event = "manual_check"
    /\ AuditedAt # 0
    /\ Len(calls) = 2
    /\ calls[1].method = "pushover"
    /\ calls[2].method = "pushover"
    /\ scrolls0 # <<>>
    /\ scrolls = scrolls0

(***************************************************************************)
(* Properties of two runs in flight at once.                               *)
(***************************************************************************)
\* the report run r returns, and the pager calls it made itself
ReportOf(r) == Output(runs[r].own).output

OwnCalls(r) == runs[r].own.calls

\* the entries with this head in a list of a report
WithHead(list, head) == {i \in 1..Len(list) : StartsWith(list[i], head)}

\* the issues the own steps of run r can have found: the error of its log,
\* the violations of its changed files, the critique of its document, its
\* own failed pages
OwnIssues(r) ==
    {"Failed to page Hayato",
     "Plan score is below threshold: " \o ScoreText(runs[r].verdict)}
        \cup Range(runs[r].verdict.issues)
        \cup (IF runs[r].ctx.log \in {LogNotRead, CleanLog} THEN {}
              ELSE {"Error found in log: " \o LogResults[runs[r].ctx.log].last_error})
        \cup Range(CreedAuditRun(GetChangedFiles(runs[r].ctx.git)).violations)

\* the actions the own steps of run r can have taken
OwnActions(r) ==
    {"Checking log for errors", "Paging Hayato about log error",
     "No errors found in log, checking for changed files",
     "No changed files found", "No creed violations found",
     "Paging Hayato about creed violations", "Paging Hayato about low plan score",
     "No recent scrolls found",
     "Auditing " \o ToString(Len(GetChangedFiles(runs[r].ctx.git))) \o " changed files",
     "Found latest scroll: " \o runs[r].latest,
     "Critiquing plan: " \o runs[r].latest,
     "Plan score is acceptable: " \o ScoreText(runs[r].verdict)}
        \cup {"Paged successfully via " \o OwnCalls(r)[k].method : k \in 1..Len(OwnCalls(r))}

\* C27: runs in flight at once share no state of the process: under every
\* interleaving of the steps of two runs, the actions_taken, issues_found
\* and paged of the report of a run come from the steps and the pager
\* outcomes of that run alone, never from entries or deliveries of the
\* other run.
C27_RunsShareNoLists ==
    \A r \in RunIds :
        runs[r].pc = "done" =>
            /\ ReportOf(r).status = "completed"
            /\ ReportOf(r).paged
                   <=> \E k \in 1..Len(OwnCalls(r)) : OwnCalls(r)[k].status = "success"
            /\ Range(ReportOf(r).issues_found) \subseteq OwnIssues(r)
            /\ Range(ReportOf(r).actions_taken) \subseteq OwnActions(r)
            /\ Count(ReportOf(r).issues_found, "Failed to page Hayato")
                   = Cardinality({k \in 1..Len(OwnCalls(r)) :
                                     OwnCalls(r)[k].status = "failure"})
            /\ Cardinality(WithHead(ReportOf(r).actions_taken, "Paged successfully via "))
                   = Cardinality({k \in 1..Len(OwnCalls(r)) :
                                     OwnCalls(r)[k].status = "success"})
            /\ Cardinality(WithHead(ReportOf(r).actions_taken, "Paging Hayato about "))
                   = Len(OwnCalls(r))
            /\ Cardinality(WithHead(ReportOf(r).actions_taken, "Checking log for errors"))
                   = IF runs[r].input.event = "scroll_committed" THEN 0 ELSE 1
            /\ Cardinality(WithHead(ReportOf(r).actions_taken, "Critiquing plan: ")) <= 1

\* two runs that have both ended and not yet returned: a cycle_end run that
\* paged about a log error through the fallback channel, and a manual_check
\* run on a clean log that found the record of that page as the latest
\* document, critiqued it and did not page
C27_Witness ==
    /\ runs[1].pc = "done"
    /\ runs[2].pc = "done"
    /\ runs[1].input.event = "cycle_end"
    /\ runs[2].input.event = "manual_check"
    /\ Len(OwnCalls(1)) = 1
    /\ OwnCalls(1)[1].method = "ninjascroll"
    /\ ReportOf(1).paged
    /\ runs[2].latest = ScrollPath(OwnCalls(1)[1].file)
    /\ OwnCalls(2) = <<>>
    /\ ~ReportOf(2).paged
    /\ ReportOf(2).issues_found = <<>>

(***************************************************************************)
(* Properties of a run on a log that cannot be read.                       *)
(***************************************************************************)
\* the issues of the report that record an error found in the log
LogErrorIssues ==
    {i \in 1..Len(report.issues_found) :
        StartsWith(report.issues_found[i], "Error found in log: ")}

\* C31: a cycle_end run on a missing or unreadable log treats the log as
\* degraded, not as erroneous: it sends no notification about a log error,
\* records no log-error issue, and goes on to the discovery of the changed
\* files and to the audit.
C31_MissingLogIsDegraded ==
    (event.event = "cycle_end" /\ env.log = MissingLog) =>
        /\ report.status = "completed"
        /\ ~PagedAbout("Error detected in training log")
        /\ LogErrorIssues = {}
        /\ ActionAt("No errors found in log, checking for changed files") = 2

(***************************************************************************)
(* Properties of the document a manual_check run critiques.                *)
(***************************************************************************)
\* the document the run reports to have found
FoundLatest(path) == ActionAt("Found latest scroll: " \o path) # 0

\* C32: in a manual_check run the proposal is discovered independently of
\* the cycle_end step: the document critiqued is the most recently modified
\* proposal as of the start of the run, and never a fallback record that
\* the pager wrote during the same run.
C32_LatestIsProposalAtStart ==
    (event.event = "manual_check" /\ report.status = "completed") =>
        /\ IF Truthy(GetLatestScroll(scrolls0))
           THEN FoundLatest(GetLatestScroll(scrolls0))
           ELSE ActionAt("No recent scrolls found") # 0
        /\ \A file \in FallbackFiles : ~FoundLatest(ScrollPath(file))

(***************************************************************************)
(* Properties of repeated runs while nothing happens.                      *)
(***************************************************************************)
\* a manual_check run has returned without a page and without a pager call
Settled ==
    /\ event.event = "manual_check"
    /\ report.status = "completed"
    /\ ~report.paged
    /\ calls = <<>>

\* C33: alerting settles across runs: while the log holds no error, no
\* source file has changed and the author adds or modifies no proposal,
\* repeated manual_check runs eventually return paged = FALSE without a
\* new notification.
C33_AlertingSettles == <>Settled

(***************************************************************************)
(* Properties of the audit trail of a report.                              *)
(***************************************************************************)
\* the positions of the "Paging Hayato ..." entries of actions_taken
PagingEntries ==
    {i \in 1..Len(report.actions_taken) :
        StartsWith(report.actions_taken[i], "Paging Hayato ")}

\* the position of the k-th "Paging Hayato ..." entry
PagingEntry(k) ==
    CHOOSE i \in PagingEntries : Cardinality({j \in PagingEntries : j <= i}) = k

\* the entry that announces a page with this title
Announces(entry, title) ==
    \/ entry = "Paging Hayato about log error"
            /\ title = "Error detected in training log"
    \/ entry = "Paging Hayato about creed violations"
            /\ title = "Creed violations detected"
    \/ entry = "Paging Hayato about low plan score"
            /\ StartsWith(title, "Plan critique: ")

\* the issues recorded by the part of the run that made pager call k: the
\* scroll part records "Plan score is below threshold ..." first, the
\* cycle_end part records its issues before that
IssuesOfCall(k) ==
    LET low == {i \in 1..Len(report.issues_found) :
                   StartsWith(report.issues_found[i], "Plan score is below threshold: ")}
        from == IF low = {} THEN Len(report.issues_found) + 1 ELSE Least(low)
    IN  IF StartsWith(calls[k].title, "Plan critique: ")
        THEN {report.issues_found[i] : i \in from..Len(report.issues_found)}
        ELSE {report.issues_found[i] : i \in 1..(from - 1)}

NoDocumentPath == event.event = "scroll_committed" /\ event.scroll_path \in {NONE, ""}

\* C35: a scroll_committed event without a document path (absent or empty)
\* calls no component and no pager: the run returns status "completed"
\* with empty actions_taken, empty issues_found and paged = FALSE, and
\* leaves the directory as it was.
C35_NoPathNoWork ==
    NoDocumentPath =>
        /\ report = [status |-> "completed", actions_taken |-> <<>>,
                     issues_found |-> <<>>, paged |-> FALSE]
        /\ calls = <<>>
        /\ scrolls = scrolls0

\* a scroll_committed event with an empty path while a proposal that would
\* score below the threshold waits in the directory
C35_Witness ==
    /\ NoDocumentPath
    /\ event.scroll_path = ""
    /\ report.status = "completed"
    /\ \E i \in 1..Len(scrolls) :
           /\ scrolls[i].name = "05-01-0900-plan.md"
           /\ scrolls[i].content = <<"# Plan", "Lower the learning rate">>

(***************************************************************************)
(* Properties of the termination of a run.                                 *)
(***************************************************************************)
\* how far a run has come
Rank(pc) ==
    CASE pc = "idle" -> 0
      [] pc = "cycle_end" -> 1
      [] pc = "latest" -> 2
      [] pc = "critique" -> 3
      [] pc = "page" -> 4
      [] pc = "done" -> 5
      [] pc = "returned" -> 6

\* the next step of run r can be taken, wherever the other run stands
CanStep(r) ==
    /\ runs[r].pc = "cycle_end" => ENABLED StepCycleEnd(r)
    /\ runs[r].pc = "latest" => ENABLED StepLatest(r)
    /\ runs[r].pc = "critique" => ENABLED StepCritique(r)
    /\ runs[r].pc = "page" => ENABLED StepPage(r)
    /\ runs[r].pc = "done" => ENABLED Finish(r)

\* the entries of the trail of run r that record a call of a component
ComponentCalls(r, head) == Cardinality(WithHead(runs[r].own.actions_taken, head))

\* C36: every supervise run ends with a report: each step of a run takes
\* the run further along the chain of its handler and none waits for
\* another run; the log sentinel, the auditor and the critic are called at
\* most once per run and the pager at most twice, and a pager call makes
\* at most one attempt on the push channel and at most one on the fallback
\* channel.
C36_RunsTerminate ==
    /\ [](\A r \in RunIds :
            /\ CanStep(r)
            /\ ComponentCalls(r, "Checking log for errors") <= 1
            /\ ComponentCalls(r, "Auditing ") <= 1
            /\ ComponentCalls(r, "Critiquing plan: ") <= 1
            /\ Len(OwnCalls(r)) <= 2
            /\ Len(OwnCalls(r)) = ComponentCalls(r, "Paging Hayato ")
            /\ \A k \in 1..Len(OwnCalls(r)) :
                   /\ Count(OwnCalls(r)[k].steps, "requests.post") <= 1
                   /\ Count(OwnCalls(r)[k].steps, "_create_ninjascroll") <= 1
            /\ runs[r].pc = "done" => ReportOf(r).status = "completed")
    /\ [][\A r \in RunIds :
             runs'[r] # runs[r] => Rank(runs'[r].pc) > Rank(runs[r].pc)]_vars

\* a manual_check run has paged twice, trying both channels each time,
\* and is done while the other run is still in the middle of its handler
C36_Witness ==
    /\ runs[1].pc = "done"
    /\ runs[1].input.event = "manual_check"
    /\ Len(OwnCalls(1)) = 2
    /\ \A k \in 1..2 :
           OwnCalls(1)[k].steps = <<"_send_pushover", "requests.post", "_create_ninjascroll">>
    /\ runs[2].pc \in {"latest", "critique", "page"}

(***************************************************************************)
(* Properties of the signals the critic looks for.                         *)
(***************************************************************************)
\* the upper-case form of a letter of the needles of the critic
CapitalOf(c) ==
    CASE c = "a" -> "A" [] c = "c" -> "C" [] c = "d" -> "D" [] c = "e" -> "E"
      [] c = "f" -> "F" [] c = "i" -> "I" [] c = "l" -> "L" [] c = "m" -> "M"
      [] c = "o" -> "O" [] c = "p" -> "P" [] c = "r" -> "R" [] c = "s" -> "S"
      [] c = "t" -> "T" [] c = "u" -> "U" [] c = "v" -> "V" [] c = "y" -> "Y"
      [] OTHER -> c

\* needle in line.lower(): the line reads the needle at some position, in
\* either case of each letter
InLower(needle, line) ==
    \E i \in 1..(Len(line) - Len(needle) + 1) :
        \A k \in 1..Len(needle) :
            At(line, i + k - 1) \in {At(needle, k), CapitalOf(At(needle, k))}

\* the document the critic was asked about, when it is there and is text
CritiquedText ==
    {scrolls0[i].content : i \in {j \in Lookup(scrolls0, event.scroll_path) :
                                    scrolls0[j].content # NoText}}

Signals(content, needles) ==
    \E j \in 1..Len(content) : \E needle \in needles : InLower(needle, content[j])

SeveralProblems(content) == Signals(content, {"multiple issues", "several issues"})

OutOfMemory(content) == Signals(content, {"cuda out of memory", "oom"})

\* C37: the critic picks one signal category per document, with a fixed
\* precedence: the signal of several problems gives score 45 even when the
\* out-of-memory signal is present as well; the out-of-memory signal alone
\* gives 85; no signal gives 70.  Of the documents that can be read, only
\* those with the out-of-memory signal and without the other pass the
\* threshold of 80.
C37_OneSignalWithPrecedence ==
    event.event = "critique_plan" =>
        \A content \in CritiquedText :
            /\ report.score = IF SeveralProblems(content) THEN 45
                              ELSE IF OutOfMemory(content) THEN 85
                              ELSE 70
            /\ report.issues = IF SeveralProblems(content) THEN IssuesMultiple
                               ELSE IF OutOfMemory(content) THEN IssuesOom
                               ELSE IssuesDefault
            /\ report.score >= AcceptanceThreshold
                   <=> (OutOfMemory(content) /\ ~SeveralProblems(content))

\* the critique of a proposal that holds both signals
C37_Witness ==
    /\ event.event = "critique_plan"
    /\ \E content \in CritiquedText :
           /\ SeveralProblems(content)
           /\ OutOfMemory(content)
    /\ report.score = 45
    /\ report.issues = IssuesMultiple

(***************************************************************************)
(* Properties of the components of the elapsed time.                       *)
(***************************************************************************)
\* the seconds a component of an elapsed string ("2d", "23h", "59m", "15s")
\* stands for
ComponentSeconds(part) ==
    LET amount == ToInt(SubSeq(part, 1, Len(part) - 1))
        unit == At(part, Len(part))
    IN  CASE unit = "d" -> amount * 86400
          [] unit = "h" -> amount * 3600
          [] unit = "m" -> amount * 60
          [] unit = "s" -> amount

\* the seconds the components of an elapsed string add up to
ElapsedSeconds(elapsed) ==
    LET parts == Split(elapsed, " ")
        Part(i) == IF i <= Len(parts) THEN ComponentSeconds(parts[i]) ELSE 0
    IN  Part(1) + Part(2) + Part(3) + Part(4)

\* C38: whenever the first and the last timestamp both parse, the d/h/m/s
\* components of elapsed add up to the number of seconds from the first to
\* the last timestamp, whatever their order: when the last timestamp is
\* earlier than the first, no positive duration is reported.
C38_ComponentsAddUp ==
    (/\ TailLogCalled
     /\ Cardinality(TimestampPositions(TailedContent)) >= 2
     /\ DateAt(TailedContent, Least(TimestampPositions(TailedContent))).ok
     /\ DateAt(TailedContent, Greatest(TimestampPositions(TailedContent))).ok) =>
        ElapsedSeconds(report.elapsed) =
            SecondsBetween(TailedContent,
                           Least(TimestampPositions(TailedContent)),
                           Greatest(TimestampPositions(TailedContent)))

====
